---- MODULE Spec2Model ----
(***************************************************************************)
(* DecentPaste: pairing protocol, clipboard receive/send path, the         *)
(* echo-suppression state, the connection manager, the mobile lifecycle    *)
(* and the vault, modelled from decentpaste-app/src-tauri/src.             *)
(*                                                                         *)
(* The specifications share this module and its variables; each leaves the *)
(* variables of the parts it does not run untouched:                       *)
(*   SpecPairing   - two devices running the pairing commands, the swarm   *)
(*                   manager and the network-event loop, with an attacker  *)
(*                   and a clock                                           *)
(*   SpecCommands, SpecRequested, SpecInitiate, SpecVault                  *)
(*                 - the pairing commands as the frontend calls them, from *)
(*                   two unpaired devices or from a request under way,     *)
(*                   with peer discovery or with lock_vault                *)
(*   SpecClipboard, SpecReceive, SpecHistory, SpecShare                    *)
(*                 - one device's clipboard monitor, clipboard-change      *)
(*                   task, ClipboardReceived handler and clipboard commands*)
(*   SpecSync      - clipboard::sync::SyncManager                          *)
(*   SpecNetwork   - network::swarm::NetworkManager of one device and the  *)
(*                   peer events of the network-event loop                 *)
(*   SpecConnect   - commands::ensure_connected, two calls, with the       *)
(*                   readiness events of the network-event loop            *)
(*   SpecSettings, SpecFlush                                               *)
(*                 - the clipboard history and the paired peers with       *)
(*                   update_settings, lock_vault and unlock_vault; the     *)
(*                   mutators as their write and their flush               *)
(*   SpecBuffer    - the offline buffers of AppState                       *)
(*   SpecResume    - focus loss, the Resumed task and                      *)
(*                   process_pending_clipboard with the ClipboardReceived  *)
(*                   handler                                               *)
(*   SpecVaultManager                                                      *)
(*                 - vault::VaultManager with the vault and salt files     *)
(***************************************************************************)
EXTENDS Integers, Sequences, FiniteSets, TLC

\* ---- pairing: state of every device -------------------------------------
VARIABLES
    pairing_sessions,   \* AppState.pairing_sessions, per device: Seq(PairingSession)
    paired_peers,       \* AppState.paired_peers, per device: Seq(PairedPeer)
    vault_peers,        \* paired_peers as last flushed to the device's vault
    vault_open,         \* AppState.vault_manager is Some, per device
    cmdq,               \* overlay command channel, per device (FIFO)
    evq,                \* overlay event channel, per device (FIFO)
    pending_responses,  \* NetworkManager.pending_responses, per device: set of peers
    wire,               \* request/response messages in flight
    emitted,            \* frontend events emitted so far, per device
    acks,               \* Confirm(success=true) responses sent so far
    verified,           \* per device: sessions whose derived secret equalled the received one
    next_sid,           \* number of sessions initiated so far
    ncommands,          \* number of pairing commands issued so far
    tampered,           \* number of in-flight messages altered so far
    now,                \* wall clock, seconds
    discovered_peers    \* AppState.discovered_peers, per device: peer -> addresses

pairVars == <<pairing_sessions, paired_peers, vault_peers, vault_open, cmdq, evq,
              pending_responses, wire, emitted, acks, verified, next_sid,
              ncommands, tampered, now, discovered_peers>>

\* ---- clipboard: one device ----------------------------------------------
VARIABLES
    clipboard_history,  \* AppState.clipboard_history: Seq(ClipboardEntry), newest first
    vault_history,      \* clipboard_history as last flushed to the vault
    os_clipboard,       \* text held by the OS clipboard ("" when empty)
    os_from_remote,     \* TRUE when the ClipboardReceived handler wrote that text
    last_hash,          \* ClipboardMonitor.last_hash
    pending_clipboard,  \* AppState.pending_clipboard
    is_foreground,      \* AppState.is_foreground
    mobile,             \* the build: target_os android/ios, or desktop
    auto_sync_enabled,  \* AppSettings.auto_sync_enabled
    message_buffers,    \* AppState.message_buffers: peer -> Seq(ClipboardMessage)
    clipboard_rx,       \* clipboard-change channel (monitor -> change task)
    net_cmds,           \* overlay command channel: BroadcastClipboard commands
    recv_pc,            \* position of the network-event task inside the handler
    recv_cur,           \* the plaintext and message fields the handler works on
    mon_pc,             \* position of the monitor's poll loop
    mon_text,           \* text the monitor read from the OS clipboard
    clock,              \* the last reading of Utc::now()
    ninputs             \* user actions and network events so far

clipVars == <<clipboard_history, vault_history, os_clipboard, os_from_remote,
              last_hash, pending_clipboard, is_foreground, mobile,
              auto_sync_enabled, message_buffers, clipboard_rx, net_cmds,
              recv_pc, recv_cur, mon_pc, mon_text, clock, ninputs>>

\* ---- SyncManager --------------------------------------------------------
VARIABLES
    recent_hashes,      \* SyncManager.recent_hashes: hash -> Instant
    local_hash,         \* SyncManager.local_hash
    last_broadcast,     \* hash of the last call for which should_broadcast returned true
    sync_ret,           \* the last call and what it returned
    instant,            \* Instant::now(), seconds
    ncalls              \* number of calls so far

syncVars == <<recent_hashes, local_hash, last_broadcast, sync_ret, instant, ncalls>>

\* ---- commands: what the frontend sees ------------------------------------
VARIABLES
    returned            \* what the last call of a pairing command, of set_clipboard,
                        \* of share_clipboard_content or of reconnect_peers returned

callVars == <<returned>>

\* ---- connections: the NetworkManager of one device and what the -----------
\* ---- application keeps about its peers ----------------------------------
VARIABLES
    manager_discovered_peers, \* NetworkManager.discovered_peers: peer -> addresses
    connected_peers,          \* NetworkManager.connected_peers: set of peers
    pending_retries,          \* NetworkManager.pending_retries: peer -> PeerRetryState
    dialing,                  \* dials the swarm has under way, per peer
    subscribed,               \* peers gossipsub has reported subscribed to the clipboard topic
    command_rx,               \* NetworkManager.command_rx (FIFO)
    network_event_rx,         \* the receiving end of NetworkManager.event_tx (FIFO)
    last_known_addresses,     \* PairedPeer.last_known_addresses of each paired peer
    peer_connections,         \* AppState.peer_connections: peer -> ConnectionStatus
    ready_peers,              \* AppState.ready_peers: set of peers
    retry_instant,            \* Instant::now() of the manager, seconds
    retry_dials,              \* per peer: retry dials since it was last discovered or
                              \* ReconnectPeers was last handled
    ndials,                   \* dials issued so far
    nevents                   \* swarm events and commands so far

netVars == <<manager_discovered_peers, connected_peers, pending_retries, dialing,
             subscribed, command_rx, network_event_rx, last_known_addresses,
             peer_connections, ready_peers, retry_instant, retry_dials, ndials,
             nevents>>

\* ---- connection management: ensure_connected ------------------------------
VARIABLES
    reconnect_in_progress,  \* AppState.reconnect_in_progress
    pending_dials,          \* AppState.pending_dials, modulo 2^64: a value below 0
                            \* stands for 2^64 minus its magnitude
    notified,               \* dials_complete_notify: the calls whose Notified future
                            \* exists and has not been woken
    woken,                  \* the calls whose Notified future notify_waiters has woken
    ec_pc,                  \* per ensure_connected call: where it is
    ec_to_dial,             \* per call: its to_dial
    ec_summary,             \* per call: the ConnectionSummary it returned
    nready                  \* readiness events the network layer has sent so far

connVars == <<reconnect_in_progress, pending_dials, notified, woken, ec_pc,
              ec_to_dial, ec_summary, nready>>

\* ---- settings -------------------------------------------------------------
VARIABLES
    clipboard_history_limit,  \* AppSettings.clipboard_history_limit
    keep_history              \* AppSettings.keep_history

appVars == <<clipboard_history_limit, keep_history>>

\* ---- calls on the offline buffers ------------------------------------------
VARIABLES
    buffer_call             \* the last call of one of the message_buffers methods:
                            \* its name, arguments, the reading of Utc::now() when
                            \* it ran, the peer's buffer before it and what it returned

bufVars == <<buffer_call>>

\* ---- mobile lifecycle: the Resumed task and process_pending_clipboard --------
VARIABLES
    resumed_pc,             \* where the task spawned by RunEvent::Resumed is
    resumed_pending,        \* its local `pending`
    ppc_pc,                 \* where the call of process_pending_clipboard is
    ppc_pending,            \* its local `pending`
    nqueued,                \* contents the ClipboardReceived handler has stored in
                            \* pending_clipboard so far
    napplied,               \* pending contents written to the OS clipboard so far
    nlifecycle              \* lifecycle events and calls so far

lifeVars == <<resumed_pc, resumed_pending, ppc_pc, ppc_pending, nqueued, napplied,
              nlifecycle>>

\* ---- flush-on-write: mutators between their write and their flush -----------
VARIABLES
    unflushed,              \* the mutators that have written the state in memory
                            \* and have not yet called their flush
    unlocking               \* the devices whose unlock_vault has loaded the vault
                            \* and has not yet stored the vault manager

flushVars == <<unflushed, unlocking>>

\* ---- VaultManager (vault/manager.rs) and the files of the vault -------------
VARIABLES
    stronghold,             \* VaultManager.stronghold, an Option: <<>>, or one record
                            \* with the key and the store of the open vault
    vault_file,             \* the vault file on disk: the key it was saved under, the
                            \* store saved and whether the bytes are as they were saved
    salt_file,              \* the salt file on disk: None or the salt
    vm_call,                \* the last call on the manager and what it returned
    ndamage,                \* times the files were damaged from outside so far
    written                 \* what the callers have passed to the setters, per store
                            \* key: the last value set since the manager was opened
                            \* (set), the last value set that a lock() or a flush()
                            \* returning Ok has followed (kept), and the last value
                            \* set that a successful Stronghold::save has followed
                            \* (saved)

vmVars == <<stronghold, vault_file, salt_file, vm_call, ndamage, written>>

\* ---- tasks: the RwLocks of the shared state and who holds them ----------------
VARIABLES
    held,                   \* the guards alive: <<task, lock, mode>>
    waiting,                \* per RwLock, the tasks waiting for it in the order they
                            \* asked (tokio's RwLock is fair): <<task, mode>>
    running,                \* per task, the function or handler it is in ("idle": none)
    at,                     \* per task, the step of it that comes next
    nstarted                \* commands, clipboard changes and swarm events so far

lockVars == <<held, waiting, running, at, nstarted>>

\* ---- the swarm: connections --------------------------------------------------
VARIABLES
    established             \* per peer, the connections the swarm has open with it

swarmVars == <<established>>

vars == <<pairVars, clipVars, syncVars, callVars, netVars, connVars, appVars, bufVars, lifeVars, flushVars, vmVars, lockVars, swarmVars>>

None == "None"

\* Result<T, DecentPasteError> as the frontend receives it
Ok(value) == "Ok(" \o value \o ")"
Err(error) == "Err(" \o error \o ")"

\* ==========================================================================
\* Pairing
\* ==========================================================================

\* ---- bounds -------------------------------------------------------------
MaxCommands == 3      \* pairing commands the two users issue per run
MaxTamper == 1        \* messages an active attacker alters per run
MaxTicks == 1         \* clock steps per run

Devices == {"A", "B"}
\* The device whose clipboard, buffers and connections are modelled.
Self == "B"
\* The device whose user starts pairings; the other device responds.
Initiators == {"A"}

\* PINs are only ever compared for equality, so one generated PIN and one
\* other PIN a user may type stand for all of them.
GeneratedPins == {"314159"}
Pins == GeneratedPins \cup {"000000"}
TickSeconds == 6 * 60
\* uuid::Uuid::new_v4(): the n-th session id drawn
NthSessionId(n) == "s" \o ToString(n)
SessionIds == {NthSessionId(n) : n \in 1..(MaxCommands + 1)}

\* ---- keys ---------------------------------------------------------------
\* X25519 private keys are 1 and 2 (devices A and B) and 3 (a third device C,
\* the attacker of the pairing runs); the public key of private key k is
\* 10 + k; NoKey stands for Option::None and BadKey for
\* a byte string that is not 32 bytes long.
NoKey == 0
BadKey == 99
NoSecret == 0
DeriveErr == -1
PrivateKey(d) == CASE d = "A" -> 1 [] d = "B" -> 2 [] d = "C" -> 3 [] OTHER -> 4
PublicKey(d) == 10 + PrivateKey(d)
AttackerPublicKey == PublicKey("C")

\* security::derive_shared_secret: X25519 is commutative in the two private
\* keys; a key of the wrong length is an error.
derive_shared_secret(our_private_key, their_public_key) ==
    IF their_public_key = BadKey \/ their_public_key = NoKey
    THEN DeriveErr
    ELSE LET b == their_public_key - 10
         IN IF our_private_key <= b THEN our_private_key * 10 + b
                                    ELSE b * 10 + our_private_key


\* ---- records ------------------------------------------------------------
SessionTimeoutMinutes == 5

\* security::PairingSession::new
PairingSession_new(session_id, peer_id, is_initiator) ==
    [session_id |-> session_id, peer_id |-> peer_id, peer_public_key |-> NoKey,
     pin |-> None, state |-> "Initiated", is_initiator |-> is_initiator,
     created_at |-> now, peer_addresses |-> <<>>]

\* PairingSession::with_peer_addresses
with_peer_addresses(session, peer_addresses) ==
    [session EXCEPT !.peer_addresses = peer_addresses]

\* discovered.iter().find(|p| p.peer_id == peer_id).map(|p| p.addresses.clone())
\*     .unwrap_or_default()
DiscoveredAddresses(d, peer_id) ==
    IF peer_id \in DOMAIN discovered_peers[d] THEN discovered_peers[d][peer_id] ELSE <<>>

\* security::PairingSession::is_expired
is_expired(s) == ((now - s.created_at) \div 60) > SessionTimeoutMinutes

\* security::PairingState::Failed(String)
FailedState(reason) == "Failed(" \o reason \o ")"

\* sessions.iter().find(|s| s.session_id == session_id): index of the first
\* match, 0 when there is none.
FindSession(ss, sid) ==
    IF \E i \in 1..Len(ss) : ss[i].session_id = sid
    THEN CHOOSE i \in 1..Len(ss) :
            /\ ss[i].session_id = sid
            /\ \A j \in 1..(i - 1) : ss[j].session_id # sid
    ELSE 0

\* Vec::retain
Retain(seq, Keep(_)) ==
    LET F[i \in 0..Len(seq)] ==
            IF i = 0 THEN <<>>
            ELSE IF Keep(seq[i]) THEN Append(F[i - 1], seq[i]) ELSE F[i - 1]
    IN F[Len(seq)]

\* A pairing message on the wire (network::protocol::PairingMessage inside a
\* request or a response of the request-response protocol).
Msg(kind, from, to, sid, pin, key, success, secret, error) ==
    [kind |-> kind, from |-> from, to |-> to, session_id |-> sid, pin |-> pin,
     public_key |-> key, success |-> success, shared_secret |-> secret,
     error |-> error]

\* network::NetworkCommand
Cmd(cmd, peer, sid, pin, key, success, secret) ==
    [cmd |-> cmd, peer_id |-> peer, session_id |-> sid, pin |-> pin,
     public_key |-> key, success |-> success, shared_secret |-> secret]

\* network::NetworkEvent
Ev(ev, sid, peer, pin, key, secret, error) ==
    [ev |-> ev, session_id |-> sid, peer_id |-> peer, pin |-> pin,
     public_key |-> key, shared_secret |-> secret, error |-> error]

Emit(d, event, sid, peer) ==
    [emitted EXCEPT ![d] = @ \cup {[event |-> event, session_id |-> sid, peer_id |-> peer]}]

\* Every peer taken for unpaired.
is_peer_paired_Never(d, peer_id) == FALSE

\* AppState::is_peer_paired
is_peer_paired(d, peer_id) ==
    \E i \in 1..Len(paired_peers[d]) : paired_peers[d][i].peer_id = peer_id

InitPairing ==
    /\ pairing_sessions = [d \in Devices |-> <<>>]
    /\ paired_peers = [d \in Devices |-> <<>>]
    /\ vault_peers = [d \in Devices |-> <<>>]
    /\ vault_open = [d \in Devices |-> TRUE]
    /\ cmdq = [d \in Devices |-> <<>>]
    /\ evq = [d \in Devices |-> <<>>]
    /\ pending_responses = [d \in Devices |-> {}]
    /\ wire = {}
    /\ emitted = [d \in Devices |-> {}]
    /\ acks = {}
    /\ verified = [d \in Devices |-> {}]
    /\ next_sid = 0
    /\ ncommands = 0
    /\ tampered = 0
    /\ now = 0
    /\ discovered_peers = [d \in Devices |-> [p \in {} |-> <<>>]]


\* ---- commands (commands.rs) ---------------------------------------------
\* Every device holds its identity (start_network_services runs with the
\* identity loaded from the vault) and its command sender.

\* commands::initiate_pairing
initiate_pairing(d, peer_id) ==
    /\ ncommands < MaxCommands
    /\ ncommands' = ncommands + 1
    /\ d # peer_id
    /\ IF is_peer_paired(d, peer_id)
       THEN /\ returned' = Err("AlreadyPaired")
            /\ UNCHANGED <<pairing_sessions, cmdq, next_sid>>
       ELSE LET session_id == NthSessionId(next_sid + 1)
            IN /\ pairing_sessions' = [pairing_sessions EXCEPT ![d] =
                      Append(@, with_peer_addresses(
                                    PairingSession_new(session_id, peer_id, TRUE),
                                    DiscoveredAddresses(d, peer_id)))]
               /\ cmdq' = [cmdq EXCEPT ![d] = Append(@,
                      Cmd("SendPairingRequest", peer_id, session_id, None,
                          PublicKey(d), FALSE, NoSecret))]
               /\ next_sid' = next_sid + 1
               /\ returned' = Ok(session_id)
    /\ UNCHANGED <<paired_peers, vault_peers, vault_open, evq, pending_responses, wire,
                   emitted, acks, verified, tampered, now>>
    /\ UNCHANGED <<discovered_peers, clipVars, syncVars, netVars, connVars, appVars, bufVars, lifeVars, flushVars, vmVars, lockVars, swarmVars>>

\* The first guard left out.
AlreadyAccepted_Never(state) == FALSE

\* commands.rs:284, the guard against a repeated call
AlreadyAccepted(state) == state = "AwaitingPinConfirmation"

\* commands.rs:288-293, the states of a session already processed
AlreadyProcessed(state) ==
    state \notin {"Initiated", "AwaitingPinConfirmation"}

\* commands::respond_to_pairing; pin: what generate_pin() returns.
respond_to_pairing(d, session_id, accept, pin) ==
    LET ss == pairing_sessions[d]
        i == FindSession(ss, session_id)
    IN /\ ncommands < MaxCommands
       /\ ncommands' = ncommands + 1
       /\ IF i = 0
          THEN /\ returned' = Err("Pairing(Session not found)")
               /\ UNCHANGED <<pairing_sessions, cmdq>>
          ELSE IF AlreadyAccepted(ss[i].state)
          THEN /\ returned' = Ok(ss[i].pin)
               /\ UNCHANGED <<pairing_sessions, cmdq>>
          ELSE IF AlreadyProcessed(ss[i].state)
          THEN /\ returned' = Err("Pairing(Session already processed)")
               /\ UNCHANGED <<pairing_sessions, cmdq>>
          ELSE IF accept
          THEN /\ pairing_sessions' = [pairing_sessions EXCEPT ![d] =
                      [ss EXCEPT ![i].pin = pin,
                                 ![i].state = "AwaitingPinConfirmation"]]
               /\ cmdq' = [cmdq EXCEPT ![d] = Append(@,
                      Cmd("SendPairingChallenge", ss[i].peer_id, session_id, pin,
                          PublicKey(d), FALSE, NoSecret))]
               /\ returned' = Ok(pin)
          ELSE /\ pairing_sessions' = [pairing_sessions EXCEPT ![d] =
                      [ss EXCEPT ![i].state = FailedState("User rejected")]]
               /\ cmdq' = [cmdq EXCEPT ![d] = Append(@,
                      Cmd("RejectPairing", ss[i].peer_id, session_id, None,
                          NoKey, FALSE, NoSecret))]
               /\ returned' = Ok(None)
       /\ UNCHANGED <<paired_peers, vault_peers, vault_open, evq, pending_responses, wire,
                      emitted, acks, verified, next_sid, tampered, now>>
       /\ UNCHANGED <<discovered_peers, clipVars, syncVars, netVars, connVars, appVars, bufVars, lifeVars, flushVars, vmVars, lockVars, swarmVars>>

\* commands.rs:384, `session.pin.as_ref() != Some(&pin)` negated
PinMatches(session_pin, pin) == session_pin = pin

\* commands::confirm_pairing
confirm_pairing(d, session_id, pin) ==
    LET ss == pairing_sessions[d]
        i == FindSession(ss, session_id)
        shared_secret == derive_shared_secret(PrivateKey(d), ss[i].peer_public_key)
    IN /\ ncommands < MaxCommands
       /\ ncommands' = ncommands + 1
       /\ IF i = 0
          THEN /\ returned' = Err("Pairing(Session not found)")
               /\ UNCHANGED <<pairing_sessions, cmdq>>
          ELSE IF ~PinMatches(ss[i].pin, pin)
          THEN /\ pairing_sessions' = [pairing_sessions EXCEPT ![d] =
                      [ss EXCEPT ![i].state = FailedState("Invalid PIN")]]
               /\ returned' = Ok("false")
               /\ UNCHANGED cmdq
          ELSE /\ pairing_sessions' = [pairing_sessions EXCEPT ![d] =
                      [ss EXCEPT ![i].state = "AwaitingPeerConfirmation"]]
               /\ IF ~ss[i].is_initiator
                  THEN /\ returned' = Ok("true")
                       /\ UNCHANGED cmdq
                  ELSE IF ss[i].peer_public_key = NoKey
                  THEN /\ returned' = Err("Pairing(Peer public key not found)")
                       /\ UNCHANGED cmdq
                  ELSE IF shared_secret = DeriveErr
                  THEN /\ returned' = Err("Encryption")
                       /\ UNCHANGED cmdq
                  ELSE /\ cmdq' = [cmdq EXCEPT ![d] = Append(@,
                              Cmd("SendPairingConfirm", ss[i].peer_id, session_id,
                                  None, NoKey, TRUE, shared_secret))]
                       /\ returned' = Ok("true")
       /\ UNCHANGED <<paired_peers, vault_peers, vault_open, evq, pending_responses, wire,
                      emitted, acks, verified, next_sid, tampered, now>>
       /\ UNCHANGED <<discovered_peers, clipVars, syncVars, netVars, connVars, appVars, bufVars, lifeVars, flushVars, vmVars, lockVars, swarmVars>>

\* commands::cancel_pairing
cancel_pairing(d, session_id) ==
    /\ ncommands < MaxCommands
    /\ ncommands' = ncommands + 1
    /\ pairing_sessions' = [pairing_sessions EXCEPT ![d] =
           Retain(@, LAMBDA s : s.session_id # session_id)]
    /\ returned' = Ok("()")
    /\ UNCHANGED <<paired_peers, vault_peers, vault_open, cmdq, evq, pending_responses, wire,
                   emitted, acks, verified, next_sid, tampered, now>>
    /\ UNCHANGED <<discovered_peers, clipVars, syncVars, netVars, connVars, appVars, bufVars, lifeVars, flushVars, vmVars, lockVars, swarmVars>>


\* ---- NetworkManager (network/swarm.rs) ----------------------------------

\* NetworkManager::handle_command, the pairing commands
handle_command(d) ==
    /\ cmdq[d] # <<>>
    /\ LET c == Head(cmdq[d])
           has_channel == c.peer_id \in pending_responses[d]
       IN /\ cmdq' = [cmdq EXCEPT ![d] = Tail(@)]
          /\ \/ /\ c.cmd = "SendPairingRequest"
                /\ wire' = wire \cup {Msg("Request", d, c.peer_id, c.session_id,
                                          None, c.public_key, FALSE, NoSecret, None)}
                /\ UNCHANGED pending_responses
             \/ /\ c.cmd = "SendPairingChallenge"
                /\ pending_responses' = [pending_responses EXCEPT ![d] = @ \ {c.peer_id}]
                /\ wire' = IF has_channel
                           THEN wire \cup {Msg("Challenge", d, c.peer_id, c.session_id,
                                               c.pin, c.public_key, FALSE, NoSecret, None)}
                           ELSE wire
             \/ /\ c.cmd = "RejectPairing"
                /\ pending_responses' = [pending_responses EXCEPT ![d] = @ \ {c.peer_id}]
                /\ wire' = IF has_channel
                           THEN wire \cup {Msg("ConfirmResponse", d, c.peer_id, c.session_id,
                                               None, NoKey, FALSE, NoSecret,
                                               "Pairing rejected by user")}
                           ELSE wire
             \/ /\ c.cmd = "SendPairingConfirm"
                /\ wire' = wire \cup {Msg("Confirm", d, c.peer_id, c.session_id,
                                          None, NoKey, c.success, c.shared_secret, None)}
                /\ UNCHANGED pending_responses
    /\ UNCHANGED <<pairing_sessions, paired_peers, vault_peers, vault_open, evq, emitted,
                   acks, verified, next_sid, ncommands, tampered, now>>
    /\ UNCHANGED <<discovered_peers, clipVars, syncVars, callVars, netVars, connVars, appVars, bufVars, lifeVars, flushVars, vmVars, lockVars, swarmVars>>

\* NetworkManager::handle_swarm_event, request_response::Event::Message
handle_swarm_event(d) ==
    \E m \in wire :
      /\ m.to = d
      /\ \/ /\ m.kind = "Request"
            /\ pending_responses' = [pending_responses EXCEPT ![d] = @ \cup {m.from}]
            /\ evq' = [evq EXCEPT ![d] = Append(@,
                   Ev("PairingRequestReceived", m.session_id, m.from, None,
                      m.public_key, NoSecret, None))]
            /\ wire' = wire \ {m}
            /\ UNCHANGED acks
         \/ /\ m.kind = "Confirm"
            /\ IF m.success
               THEN IF m.shared_secret # NoSecret
                    THEN /\ wire' = (wire \ {m}) \cup
                               {Msg("ConfirmResponse", d, m.from, m.session_id, None,
                                    NoKey, TRUE, m.shared_secret, None)}
                         /\ acks' = acks \cup {[from |-> d, session_id |-> m.session_id]}
                         /\ evq' = [evq EXCEPT ![d] = Append(@,
                                Ev("PairingComplete", m.session_id, m.from, None,
                                   NoKey, m.shared_secret, None))]
                    ELSE /\ wire' = wire \ {m}
                         /\ UNCHANGED <<acks, evq>>
               ELSE /\ wire' = (wire \ {m}) \cup
                          {Msg("ConfirmResponse", d, m.from, m.session_id, None,
                               NoKey, FALSE, NoSecret, m.error)}
                    /\ evq' = [evq EXCEPT ![d] = Append(@,
                           Ev("PairingFailed", m.session_id, m.from, None, NoKey,
                              NoSecret,
                              IF m.error = None THEN "Pairing cancelled" ELSE m.error))]
                    /\ UNCHANGED acks
            /\ UNCHANGED pending_responses
         \/ /\ m.kind = "Challenge"
            /\ evq' = [evq EXCEPT ![d] = Append(@,
                   Ev("PairingPinReady", m.session_id, m.from, m.pin,
                      m.public_key, NoSecret, None))]
            /\ wire' = wire \ {m}
            /\ UNCHANGED <<pending_responses, acks>>
         \/ /\ m.kind = "ConfirmResponse"
            /\ IF m.success
               THEN IF m.shared_secret # NoSecret
                    THEN evq' = [evq EXCEPT ![d] = Append(@,
                             Ev("PairingComplete", m.session_id, m.from, None,
                                NoKey, m.shared_secret, None))]
                    ELSE UNCHANGED evq
               ELSE evq' = [evq EXCEPT ![d] = Append(@,
                        Ev("PairingFailed", m.session_id, m.from, None, NoKey,
                           NoSecret,
                           IF m.error = None THEN "Unknown error" ELSE m.error))]
            /\ wire' = wire \ {m}
            /\ UNCHANGED <<pending_responses, acks>>
      /\ UNCHANGED <<pairing_sessions, paired_peers, vault_peers, vault_open, cmdq, emitted,
                     verified, next_sid, ncommands, tampered, now>>
      /\ UNCHANGED <<discovered_peers, clipVars, syncVars, callVars, netVars, connVars, appVars, bufVars, lifeVars, flushVars, vmVars, lockVars, swarmVars>>


\* ---- network-event task (lib.rs) ----------------------------------------

\* AppState::flush_paired_peers: stores the peers given when the vault manager
\* is there; with no vault manager it stores nothing and returns Ok all the same.
flush_paired_peers(d, peers) ==
    IF vault_open[d] THEN [vault_peers EXCEPT ![d] = peers] ELSE vault_peers

\* The comparison left out: every received secret is taken as matching.
SecretsMatch_Skipped(derived, received_secret) == TRUE

\* lib.rs:845, the responder's comparison `derived != received_secret`, negated
SecretsMatch(derived, received_secret) == derived = received_secret

\* NetworkEvent::PairingRequestReceived
OnPairingRequestReceived(d, e) ==
    /\ pairing_sessions' = [pairing_sessions EXCEPT ![d] =
           Append(Retain(@, LAMBDA s : ~is_expired(s)),
                  [with_peer_addresses(
                       PairingSession_new(e.session_id, e.peer_id, FALSE),
                       DiscoveredAddresses(d, e.peer_id))
                       EXCEPT !.peer_public_key = e.public_key])]
    /\ emitted' = Emit(d, "pairing-request", e.session_id, e.peer_id)
    /\ UNCHANGED <<paired_peers, vault_peers, vault_open, verified>>

\* NetworkEvent::PairingPinReady
OnPairingPinReady(d, e) ==
    LET ss == pairing_sessions[d]
        i == FindSession(ss, e.session_id)
    IN /\ pairing_sessions' = [pairing_sessions EXCEPT ![d] =
              IF i # 0
              THEN [ss EXCEPT ![i].pin = e.pin,
                              ![i].peer_public_key = e.public_key,
                              ![i].state = "AwaitingPinConfirmation"]
              ELSE ss]
       /\ emitted' = Emit(d, "pairing-pin", e.session_id, e.peer_id)
       /\ UNCHANGED <<paired_peers, vault_peers, vault_open, verified>>

\* NetworkEvent::PairingComplete
OnPairingComplete(d, e) ==
    LET ss == pairing_sessions[d]
        i == FindSession(ss, e.session_id)
        completed == IF i # 0 THEN [ss EXCEPT ![i].state = "Completed"] ELSE ss
        peer_public_key == IF i # 0 THEN ss[i].peer_public_key ELSE NoKey
        is_responder == i # 0 /\ ~ss[i].is_initiator
        derived == derive_shared_secret(PrivateKey(d), peer_public_key)
        failed == /\ is_responder
                  /\ \/ peer_public_key = NoKey
                     \/ derived = DeriveErr
                     \/ ~SecretsMatch(derived, e.shared_secret)
        key_mismatch == /\ is_responder
                        /\ derived # DeriveErr
                        /\ ~SecretsMatch(derived, e.shared_secret)
        shared_secret == IF is_responder THEN derived ELSE e.shared_secret
        added == ~is_peer_paired(d, e.peer_id)
        peers == IF added
                 THEN Append(paired_peers[d],
                             [peer_id |-> e.peer_id, shared_secret |-> shared_secret])
                 ELSE paired_peers[d]
    IN IF failed
       THEN /\ pairing_sessions' = [pairing_sessions EXCEPT ![d] =
                   IF key_mismatch
                   THEN [completed EXCEPT ![i].state = FailedState("Key verification failed")]
                   ELSE completed]
            /\ emitted' = Emit(d, "pairing-failed", e.session_id, e.peer_id)
            /\ UNCHANGED <<paired_peers, vault_peers, vault_open, verified>>
       ELSE /\ pairing_sessions' = [pairing_sessions EXCEPT ![d] = completed]
            /\ paired_peers' = [paired_peers EXCEPT ![d] = peers]
            /\ vault_peers' = IF added THEN flush_paired_peers(d, peers) ELSE vault_peers
            /\ UNCHANGED vault_open
            /\ verified' = IF is_responder
                           THEN [verified EXCEPT ![d] = @ \cup {e.session_id}]
                           ELSE verified
            /\ emitted' = Emit(d, "pairing-complete", e.session_id, e.peer_id)

\* NetworkEvent::PairingFailed
OnPairingFailed(d, e) ==
    LET ss == pairing_sessions[d]
        i == FindSession(ss, e.session_id)
    IN /\ pairing_sessions' = [pairing_sessions EXCEPT ![d] =
              IF i # 0 THEN [ss EXCEPT ![i].state = FailedState(e.error)] ELSE ss]
       /\ emitted' = Emit(d, "pairing-failed", e.session_id, e.peer_id)
       /\ UNCHANGED <<paired_peers, vault_peers, vault_open, verified>>

\* AppState::flush_all_to_vault, the paired peers: stored when the vault manager
\* is there.
flush_all_to_vault(d) ==
    IF vault_open[d] THEN [vault_peers EXCEPT ![d] = paired_peers[d]] ELSE vault_peers

\* AppState::flush_all_to_vault, the clipboard history: stored when the vault
\* manager is there and keep_history is on. Only Self's history is modelled.
flush_all_history(d) ==
    IF d = Self /\ vault_open[d] /\ keep_history THEN clipboard_history ELSE vault_history

\* commands::lock_vault: flushes everything, then drops the vault manager. The
\* network services keep running.
lock_vault(d) ==
    /\ vault_peers' = flush_all_to_vault(d)
    /\ vault_history' = flush_all_history(d)
    /\ vault_open' = [vault_open EXCEPT ![d] = FALSE]
    /\ UNCHANGED <<pairing_sessions, paired_peers, cmdq, evq, pending_responses,
                   wire, emitted, acks, verified, next_sid, ncommands, tampered,
                   now, discovered_peers, syncVars, callVars, netVars, connVars, appVars, bufVars, lifeVars, flushVars, vmVars, lockVars, swarmVars>>
    /\ UNCHANGED <<clipboard_history, os_clipboard, os_from_remote, last_hash,
                   pending_clipboard, is_foreground, mobile, auto_sync_enabled,
                   message_buffers, clipboard_rx, net_cmds, recv_pc, recv_cur,
                   mon_pc, mon_text, clock, ninputs>>

\* commands::unlock_vault with the right PIN, called from the lock screen (the
\* vault is locked), up to the loads: the vault is opened by a manager of the
\* call's own, and the paired peers and the clipboard history it holds replace
\* the ones in memory as they are.
unlock_vault_load(d) ==
    /\ ~vault_open[d]
    /\ d \notin unlocking
    /\ unlocking' = unlocking \cup {d}
    /\ paired_peers' = [paired_peers EXCEPT ![d] = vault_peers[d]]
    /\ clipboard_history' = IF d = Self THEN vault_history ELSE clipboard_history
    /\ UNCHANGED <<pairing_sessions, vault_peers, cmdq, evq, pending_responses,
                   wire, emitted, acks, verified, next_sid, ncommands, tampered,
                   now, discovered_peers, vault_open>>
    /\ UNCHANGED <<vault_history, os_clipboard, os_from_remote, last_hash,
                   pending_clipboard, is_foreground, mobile, auto_sync_enabled,
                   message_buffers, clipboard_rx, net_cmds, recv_pc, recv_cur,
                   mon_pc, mon_text, clock, ninputs>>
    /\ UNCHANGED unflushed
    /\ UNCHANGED <<syncVars, callVars, netVars, connVars, appVars, bufVars, lifeVars, vmVars, lockVars, swarmVars>>

\* The rest of unlock_vault: the manager is stored in AppState.vault_manager.
\* The network services were started by the first unlock and are not started
\* again.
unlock_vault_store(d) ==
    /\ d \in unlocking
    /\ unlocking' = unlocking \ {d}
    /\ vault_open' = [vault_open EXCEPT ![d] = TRUE]
    /\ UNCHANGED <<pairing_sessions, paired_peers, vault_peers, cmdq, evq,
                   pending_responses, wire, emitted, acks, verified, next_sid,
                   ncommands, tampered, now, discovered_peers>>
    /\ UNCHANGED unflushed
    /\ UNCHANGED <<clipVars, syncVars, callVars, netVars, connVars, appVars, bufVars,
                   lifeVars, vmVars, lockVars, swarmVars>>

\* commands::update_settings with the device name left as it is: the settings
\* are saved and replace the ones in memory. Nothing else is touched.
update_settings(limit, keep) ==
    /\ clipboard_history_limit' = limit
    /\ keep_history' = keep
    /\ UNCHANGED <<pairVars, clipVars, syncVars, callVars, netVars, connVars, bufVars, lifeVars, flushVars, vmVars, lockVars, swarmVars>>

\* The loop `while let Some(event) = network_event_rx.recv().await`: one
\* iteration takes the next event and runs its handler to the end.
handle_network_event(d) ==
    /\ evq[d] # <<>>
    /\ LET e == Head(evq[d])
       IN \/ e.ev = "PairingRequestReceived" /\ OnPairingRequestReceived(d, e)
          \/ e.ev = "PairingPinReady" /\ OnPairingPinReady(d, e)
          \/ e.ev = "PairingComplete" /\ OnPairingComplete(d, e)
          \/ e.ev = "PairingFailed" /\ OnPairingFailed(d, e)
    /\ evq' = [evq EXCEPT ![d] = Tail(@)]
    /\ UNCHANGED <<cmdq, pending_responses, wire, acks, next_sid, ncommands, tampered, now>>
    /\ UNCHANGED <<discovered_peers, clipVars, syncVars, callVars, netVars, connVars, appVars, bufVars, lifeVars, flushVars, vmVars, lockVars, swarmVars>>

\* The address lists mDNS may report for a peer
AddressLists == {<<"/ip4/10.0.0.2/tcp/4001">>, <<"/ip4/10.0.0.3/tcp/4001">>}

\* NetworkEvent::PeerDiscovered (lib.rs:517-567): a peer that is not paired is
\* added to discovered_peers or replaces its entry there.
OnPeerDiscovered(d, peer_id, addresses) ==
    /\ d # peer_id
    /\ ~is_peer_paired(d, peer_id)
    /\ DiscoveredAddresses(d, peer_id) # addresses
    /\ discovered_peers' = [discovered_peers EXCEPT ![d] =
           [p \in DOMAIN @ \cup {peer_id} |-> IF p = peer_id THEN addresses ELSE @[p]]]
    /\ UNCHANGED <<pairing_sessions, paired_peers, vault_peers, vault_open, cmdq, evq,
                   pending_responses, wire, emitted, acks, verified, next_sid,
                   ncommands, tampered, now>>
    /\ UNCHANGED <<clipVars, syncVars, callVars, netVars, connVars, appVars, bufVars, lifeVars, flushVars, vmVars, lockVars, swarmVars>>

\* NetworkEvent::PeerLost (lib.rs:569-573)
OnPeerLost(d, peer_id) ==
    /\ peer_id \in DOMAIN discovered_peers[d]
    /\ discovered_peers' = [discovered_peers EXCEPT ![d] =
           [p \in DOMAIN @ \ {peer_id} |-> @[p]]]
    /\ UNCHANGED <<pairing_sessions, paired_peers, vault_peers, vault_open, cmdq, evq,
                   pending_responses, wire, emitted, acks, verified, next_sid,
                   ncommands, tampered, now>>
    /\ UNCHANGED <<clipVars, syncVars, callVars, netVars, connVars, appVars, bufVars, lifeVars, flushVars, vmVars, lockVars, swarmVars>>

\* ---- environment --------------------------------------------------------

\* An active attacker between the devices replaces the public key carried by a
\* Request or a Challenge in flight, by its own key or by a malformed one.
Tamper ==
    /\ tampered < MaxTamper
    /\ \E m \in wire, k \in {AttackerPublicKey, BadKey} :
         /\ m.kind \in {"Request", "Challenge"}
         /\ wire' = (wire \ {m}) \cup {[m EXCEPT !.public_key = k]}
    /\ tampered' = tampered + 1
    /\ UNCHANGED <<pairing_sessions, paired_peers, vault_peers, vault_open, cmdq, evq,
                   pending_responses, emitted, acks, verified, next_sid, ncommands, now>>
    /\ UNCHANGED <<discovered_peers, clipVars, syncVars, callVars, netVars, connVars, appVars, bufVars, lifeVars, flushVars, vmVars, lockVars, swarmVars>>

TickPairing ==
    /\ now + TickSeconds <= MaxTicks * TickSeconds
    /\ now' = now + TickSeconds
    /\ UNCHANGED <<pairing_sessions, paired_peers, vault_peers, vault_open, cmdq, evq,
                   pending_responses, wire, emitted, acks, verified, next_sid,
                   ncommands, tampered>>
    /\ UNCHANGED <<discovered_peers, clipVars, syncVars, callVars, netVars, connVars, appVars, bufVars, lifeVars, flushVars, vmVars, lockVars, swarmVars>>

NextPairing ==
    \/ \E d \in Initiators, p \in Devices : initiate_pairing(d, p)
    \/ \E d \in Devices, sid \in SessionIds, accept \in BOOLEAN, pin \in GeneratedPins :
          respond_to_pairing(d, sid, accept, pin)
    \/ \E d \in Devices, sid \in SessionIds, pin \in Pins : confirm_pairing(d, sid, pin)
    \/ \E d \in Devices, sid \in SessionIds : cancel_pairing(d, sid)
    \/ \E d \in Devices : handle_command(d)
    \/ \E d \in Devices : handle_swarm_event(d)
    \/ \E d \in Devices : handle_network_event(d)
    \/ Tamper
    \/ TickPairing


\* ==========================================================================
\* Clipboard: monitor, clipboard-change task, ClipboardReceived handler
\* ==========================================================================

\* ---- bounds -------------------------------------------------------------
MaxInputs == 3                \* user actions and network events per run
MaxClock == 2                 \* timestamps are 0..MaxClock
ChannelCapacity == 2          \* slots of an mpsc channel (100 in lib.rs:380-382)
HistoryLimit == 2             \* the clipboard_history_limit of the settings file (default 50)

\* The devices the modelled device may be paired with.
RemoteDevices == {"A", "C"}
\* A device on the network the device is not paired with.
Unpaired == "D"
Texts == {"a", "b", "c"}
\* Decrypted bytes that are not valid UTF-8
NotUtf8 == "\\xff"
Timestamps == 0..MaxClock

\* security::hash_content: SHA-256 of the text, hex encoded
hash_content(content) == "sha256(" \o content \o ")"

\* The secret the device shares with a paired peer (the pairing result).
SecretOf(peer_id) == derive_shared_secret(PrivateKey(Self), PublicKey(peer_id))

PairedPeer(peer_id) == [peer_id |-> peer_id, shared_secret |-> SecretOf(peer_id)]

\* The paired peers a run starts with.
PeerLists == {<<PairedPeer("A"), PairedPeer("C")>>}

\* security::encrypt_content, AES-256-GCM: the ciphertext opens under the key
\* it was made with and under no other.
encrypt_content(plaintext, key) == [key |-> key, plaintext |-> plaintext]

DecryptErr == "DecryptErr"

\* security::decrypt_content
decrypt_content(encrypted, key) ==
    IF encrypted.key = key THEN encrypted.plaintext ELSE DecryptErr

\* network::protocol::ClipboardMessage
ClipboardMessage(content_hash, encrypted_content, timestamp, origin_device_id) ==
    [content_hash |-> content_hash, encrypted_content |-> encrypted_content,
     timestamp |-> timestamp, origin_device_id |-> origin_device_id]

\* What a received message may carry: a hash with the text it is the hash
\* of, or a hash with bytes it is not the hash of.
WellFormed == {<<hash_content(t), t>> : t \in Texts}
Corrupted == {<<hash_content("a"), t>> : t \in (Texts \ {"a"}) \cup {NotUtf8}}

\* The ClipboardReceived events the overlay may deliver: messages of either
\* kind from the paired devices, messages from a device that is not paired,
\* and messages that name the device itself as their origin.
ClipboardMessages ==
    {ClipboardMessage(pl[1], encrypt_content(pl[2], SecretOf(p)), ts, p) :
        pl \in WellFormed \cup Corrupted, p \in RemoteDevices, ts \in Timestamps}
    \cup
    {ClipboardMessage(pl[1], encrypt_content(pl[2], SecretOf(Unpaired)), ts, Unpaired) :
        pl \in WellFormed, ts \in Timestamps}
    \cup
    {ClipboardMessage(pl[1], encrypt_content(pl[2], SecretOf("A")), ts, Self) :
        pl \in WellFormed, ts \in Timestamps}

\* clipboard::ClipboardEntry::new_local
new_local(content, utc_now) ==
    [content_hash |-> hash_content(content), timestamp |-> utc_now, is_local |-> TRUE]

\* clipboard::ClipboardEntry::new_remote
new_remote(content_hash, timestamp) ==
    [content_hash |-> content_hash, timestamp |-> timestamp, is_local |-> FALSE]

\* Iterator::position: index of the first element satisfying P, 0 for None
Position(seq, P(_)) ==
    IF \E i \in 1..Len(seq) : P(seq[i])
    THEN CHOOSE i \in 1..Len(seq) : P(seq[i]) /\ \A j \in 1..(i - 1) : ~P(seq[j])
    ELSE 0

\* Vec::remove
RemoveAt(seq, idx) == SubSeq(seq, 1, idx - 1) \o SubSeq(seq, idx + 1, Len(seq))

\* Vec::insert; pos counts from 1
InsertAt(seq, pos, x) == SubSeq(seq, 1, pos - 1) \o <<x>> \o SubSeq(seq, pos, Len(seq))

\* Vec::truncate
Truncate(seq, n) == IF Len(seq) > n THEN SubSeq(seq, 1, n) ELSE seq

\* Every entry taken for older: the new entry goes to the front.
IsOlder_Always(e, entry) == TRUE

\* An entry of the same timestamp taken for older.
IsOlder_OrEqual(e, entry) == e.timestamp <= entry.timestamp

\* state.rs:161, the comparison that finds the insert position: the first
\* entry older than the new one.
IsOlder(e, entry) == e.timestamp < entry.timestamp

\* AppState::add_clipboard_entry: the history it leaves
add_clipboard_entry(history, entry) ==
    LET idx == Position(history, LAMBDA e : e.content_hash = entry.content_hash)
        removed == IF idx # 0 THEN RemoveAt(history, idx) ELSE history
        found == Position(removed, LAMBDA e : IsOlder(e, entry))
        insert_pos == IF found # 0 THEN found ELSE Len(removed) + 1
    IN Truncate(InsertAt(removed, insert_pos, entry), clipboard_history_limit)

\* AppState::flush_clipboard_history: what the vault holds afterwards. Nothing
\* is stored with keep_history off or with no vault manager.
flush_clipboard_history(history) ==
    IF keep_history /\ vault_open[Self] THEN history ELSE vault_history

\* ---- user and OS ----------------------------------------------------------

\* The user copies a text in some application.
UserCopy(text) ==
    /\ ninputs < MaxInputs
    /\ ninputs' = ninputs + 1
    /\ os_clipboard' = text
    /\ os_from_remote' = FALSE
    /\ UNCHANGED <<clipboard_history, vault_history, last_hash, pending_clipboard,
                   is_foreground, mobile, auto_sync_enabled, message_buffers,
                   clipboard_rx, net_cmds, recv_pc, recv_cur, mon_pc, mon_text, clock>>
    /\ UNCHANGED <<pairVars, syncVars, callVars, netVars, connVars, appVars, bufVars, lifeVars, flushVars, vmVars, lockVars, swarmVars>>

\* ---- ClipboardMonitor (clipboard/monitor.rs) ----------------------------

\* The poll loop reads the OS clipboard (monitor.rs:62-65); an empty text is
\* skipped. The desktop build only.
MonitorRead ==
    /\ ~mobile
    /\ mon_pc = "idle"
    /\ os_clipboard # ""
    /\ mon_pc' = "read"
    /\ mon_text' = [text |-> os_clipboard, from_remote |-> os_from_remote]
    /\ UNCHANGED <<clipboard_history, vault_history, os_clipboard, os_from_remote,
                   last_hash, pending_clipboard, is_foreground, mobile,
                   auto_sync_enabled, message_buffers, clipboard_rx, net_cmds,
                   recv_pc, recv_cur, clock, ninputs>>
    /\ UNCHANGED <<pairVars, syncVars, callVars, netVars, connVars, appVars, bufVars, lifeVars, flushVars, vmVars, lockVars, swarmVars>>

\* The poll loop compares the hash of what it read with last_hash and reports
\* a local change when they differ (monitor.rs:66-82); tx.send waits for a
\* free slot.
MonitorCompare ==
    /\ mon_pc = "read"
    /\ LET hash == hash_content(mon_text.text)
       IN IF last_hash # hash
          THEN /\ Len(clipboard_rx) < ChannelCapacity
               /\ last_hash' = hash
               /\ clipboard_rx' = Append(clipboard_rx,
                      [content |-> mon_text.text, content_hash |-> hash,
                       is_local |-> TRUE, from_remote |-> mon_text.from_remote])
          ELSE UNCHANGED <<last_hash, clipboard_rx>>
    /\ mon_pc' = "idle"
    /\ mon_text' = None
    /\ UNCHANGED <<clipboard_history, vault_history, os_clipboard, os_from_remote,
                   pending_clipboard, is_foreground, mobile, auto_sync_enabled,
                   message_buffers, net_cmds, recv_pc, recv_cur, clock, ninputs>>
    /\ UNCHANGED <<pairVars, syncVars, callVars, netVars, connVars, appVars, bufVars, lifeVars, flushVars, vmVars, lockVars, swarmVars>>

\* ---- sending (lib.rs, commands.rs, network/swarm.rs) --------------------

\* One BroadcastClipboard command per paired peer, each encrypted under that
\* peer's secret (lib.rs:452-483, commands.rs:519-539).
Broadcasts(peers, content, utc_now, from_remote) ==
    [i \in 1..Len(peers) |->
        [message |-> ClipboardMessage(hash_content(content),
                                      encrypt_content(content, peers[i].shared_secret),
                                      utc_now, Self),
         from_remote |-> from_remote]]

\* The clipboard-change task: one iteration of `while let Some(change) =
\* clipboard_rx.recv().await` (lib.rs:431-499). utc_now: what Utc::now()
\* returns, never less than at the previous reading.
ClipboardChangeTask(utc_now) ==
    /\ clipboard_rx # <<>>
    /\ utc_now >= clock
    /\ LET change == Head(clipboard_rx)
           peers == paired_peers[Self]
           sends == auto_sync_enabled /\ change.is_local /\ peers # <<>>
       IN /\ clipboard_rx' = Tail(clipboard_rx)
          /\ IF sends
             THEN /\ Len(net_cmds) + Len(peers) <= ChannelCapacity
                  /\ net_cmds' = net_cmds \o
                         Broadcasts(peers, change.content, utc_now, change.from_remote)
                  /\ clipboard_history' = add_clipboard_entry(clipboard_history,
                         new_local(change.content, utc_now))
                  /\ vault_history' = flush_clipboard_history(clipboard_history')
                  /\ clock' = utc_now
             ELSE /\ utc_now = clock
                  /\ UNCHANGED <<net_cmds, clipboard_history, vault_history, clock>>
    /\ UNCHANGED <<os_clipboard, os_from_remote, last_hash, pending_clipboard,
                   is_foreground, mobile, auto_sync_enabled, message_buffers,
                   recv_pc, recv_cur, mon_pc, mon_text, ninputs>>
    /\ UNCHANGED <<pairVars, syncVars, callVars, netVars, connVars, appVars, bufVars, lifeVars, flushVars, vmVars, lockVars, swarmVars>>

\* commands.rs:494
MAX_CLIPBOARD_SIZE == 1048576

\* Two texts that stand for a content of exactly MAX_CLIPBOARD_SIZE bytes and
\* for one of a byte more.
Exactly1MiB == "1MiB"
Over1MiB == "1MiB+1"

\* content.len(): the other texts of the model are one byte long.
ContentLen(content) ==
    CASE content = Exactly1MiB -> MAX_CLIPBOARD_SIZE
      [] content = Over1MiB -> MAX_CLIPBOARD_SIZE + 1
      [] OTHER -> 1

\* commands.rs:495, the size check of share_clipboard_content
TooLarge(content) == ContentLen(content) > MAX_CLIPBOARD_SIZE

\* commands::set_clipboard: the content goes to the OS clipboard as it is;
\* write_ok: whether the clipboard plugin's write succeeds.
set_clipboard(content, write_ok) ==
    /\ ninputs < MaxInputs
    /\ ninputs' = ninputs + 1
    /\ IF write_ok
       THEN /\ os_clipboard' = content
            /\ os_from_remote' = FALSE
            /\ returned' = Ok("()")
       ELSE /\ UNCHANGED <<os_clipboard, os_from_remote>>
            /\ returned' = Err("Clipboard")
    /\ UNCHANGED <<clipboard_history, vault_history, last_hash, pending_clipboard,
                   is_foreground, mobile, auto_sync_enabled, message_buffers,
                   clipboard_rx, net_cmds, recv_pc, recv_cur, mon_pc, mon_text, clock>>
    /\ UNCHANGED <<pairVars, syncVars, netVars, connVars, appVars, bufVars, lifeVars, flushVars, vmVars, lockVars, swarmVars>>

\* commands::share_clipboard_content. tx.send waits for a free slot of the
\* command channel.
share_clipboard_content(content, utc_now) ==
    LET peers == paired_peers[Self]
    IN /\ ninputs < MaxInputs
       /\ ninputs' = ninputs + 1
       /\ IF TooLarge(content)
          THEN /\ returned' = Err("InvalidInput")
               /\ utc_now = clock
               /\ UNCHANGED <<net_cmds, clipboard_history, vault_history, clock>>
          ELSE IF peers = <<>>
          THEN /\ returned' = Err("Pairing(No paired peers)")
               /\ utc_now = clock
               /\ UNCHANGED <<net_cmds, clipboard_history, vault_history, clock>>
          ELSE /\ utc_now >= clock
               /\ Len(net_cmds) + Len(peers) <= ChannelCapacity
               /\ net_cmds' = net_cmds \o Broadcasts(peers, content, utc_now, FALSE)
               /\ clipboard_history' = add_clipboard_entry(clipboard_history,
                      new_local(content, utc_now))
               /\ vault_history' = flush_clipboard_history(clipboard_history')
               /\ clock' = utc_now
               /\ returned' = Ok("()")
       /\ UNCHANGED <<os_clipboard, os_from_remote, last_hash, pending_clipboard,
                      is_foreground, mobile, auto_sync_enabled, message_buffers,
                      clipboard_rx, recv_pc, recv_cur, mon_pc, mon_text>>
       /\ UNCHANGED <<pairVars, syncVars, netVars, connVars, appVars, bufVars, lifeVars, flushVars, vmVars, lockVars, swarmVars>>

\* NetworkManager::handle_command, BroadcastClipboard: the message is
\* published to the clipboard topic.
handle_broadcast_clipboard ==
    /\ net_cmds # <<>>
    /\ net_cmds' = Tail(net_cmds)
    /\ UNCHANGED <<clipboard_history, vault_history, os_clipboard, os_from_remote,
                   last_hash, pending_clipboard, is_foreground, mobile,
                   auto_sync_enabled, message_buffers, clipboard_rx,
                   recv_pc, recv_cur, mon_pc, mon_text, clock, ninputs>>
    /\ UNCHANGED <<pairVars, syncVars, callVars, netVars, connVars, appVars, bufVars, lifeVars, flushVars, vmVars, lockVars, swarmVars>>

\* ---- ClipboardReceived handler (lib.rs:992-1091) ------------------------

\* The origin check left out.
IsOwnMessage_Never(my_device_id, origin_device_id) == FALSE

\* lib.rs:1000, `my_device_id.as_ref() == Some(&msg.origin_device_id)`
IsOwnMessage(my_device_id, origin_device_id) == my_device_id = origin_device_id

\* lib.rs:1018, `hash == msg.content_hash`
HashMatches(hash, content_hash) == hash = content_hash

\* lib.rs:1012-1018 for one peer: the secret decrypts the content, the bytes
\* are UTF-8 and their hash is the one the message carries.
Opens(peer, msg) ==
    LET decrypted == decrypt_content(msg.encrypted_content, peer.shared_secret)
    IN /\ decrypted # DecryptErr
       /\ decrypted # NotUtf8
       /\ HashMatches(hash_content(decrypted), msg.content_hash)

\* The first part of the handler, up to the write of the OS clipboard
\* (lib.rs:992-1036). A message of the device itself, or one that no paired
\* peer's secret opens, is dropped and the loop takes the next event.
\* write_ok: whether set_clipboard_content returns Ok, where it is called.
ReceiveStart(msg, write_ok) ==
    LET peers == paired_peers[Self]
        i == Position(peers, LAMBDA peer : Opens(peer, msg))
        foreground == IF mobile THEN is_foreground ELSE TRUE
    IN /\ recv_pc = "idle"
       /\ ninputs < MaxInputs
       /\ ninputs' = ninputs + 1
       /\ write_ok \/ (foreground /\ ~IsOwnMessage(Self, msg.origin_device_id) /\ i # 0)
       /\ IF IsOwnMessage(Self, msg.origin_device_id) \/ i = 0
          THEN UNCHANGED <<os_clipboard, os_from_remote, recv_pc, recv_cur>>
          ELSE LET content == decrypt_content(msg.encrypted_content,
                                              peers[i].shared_secret)
               IN /\ IF foreground /\ write_ok
                     THEN os_clipboard' = content /\ os_from_remote' = TRUE
                     ELSE UNCHANGED <<os_clipboard, os_from_remote>>
                  /\ recv_pc' = "applying"
                  /\ recv_cur' = [content |-> content,
                                  content_hash |-> msg.content_hash,
                                  timestamp |-> msg.timestamp,
                                  is_foreground |-> foreground]
       /\ UNCHANGED <<clipboard_history, vault_history, last_hash, pending_clipboard,
                      is_foreground, mobile, auto_sync_enabled, message_buffers,
                      clipboard_rx, net_cmds, mon_pc, mon_text, clock>>
       /\ UNCHANGED <<pairVars, syncVars, callVars, netVars, connVars, appVars, bufVars, lifeVars, flushVars, vmVars, lockVars, swarmVars>>

\* The rest of the handler (lib.rs:1040-1077): set_last_hash in the
\* foreground, pending_clipboard in the background, then the history entry.
ReceiveFinish ==
    /\ recv_pc = "applying"
    /\ IF recv_cur.is_foreground
       THEN last_hash' = recv_cur.content_hash /\ UNCHANGED pending_clipboard
       ELSE pending_clipboard' = recv_cur.content /\ UNCHANGED last_hash
    /\ clipboard_history' = add_clipboard_entry(clipboard_history,
           new_remote(recv_cur.content_hash, recv_cur.timestamp))
    /\ vault_history' = flush_clipboard_history(clipboard_history')
    /\ recv_pc' = "idle"
    /\ recv_cur' = None
    /\ nqueued' = IF recv_cur.is_foreground THEN nqueued ELSE nqueued + 1
    /\ UNCHANGED <<os_clipboard, os_from_remote, is_foreground, mobile,
                   auto_sync_enabled, message_buffers, clipboard_rx, net_cmds,
                   mon_pc, mon_text, clock, ninputs>>
    /\ UNCHANGED <<resumed_pc, resumed_pending, ppc_pc, ppc_pending, napplied, nlifecycle>>
    /\ UNCHANGED <<pairVars, syncVars, callVars, netVars, connVars, appVars, bufVars, flushVars, vmVars, lockVars, swarmVars>>

\* ---- mobile lifecycle (commands.rs) -------------------------------------

\* commands::set_app_visibility
set_app_visibility(visible) ==
    /\ mobile
    /\ ninputs < MaxInputs
    /\ ninputs' = ninputs + 1
    /\ is_foreground' = visible
    /\ UNCHANGED <<clipboard_history, vault_history, os_clipboard, os_from_remote,
                   last_hash, pending_clipboard, mobile, auto_sync_enabled,
                   message_buffers, clipboard_rx, net_cmds, recv_pc, recv_cur,
                   mon_pc, mon_text, clock>>
    /\ UNCHANGED <<pairVars, syncVars, callVars, netVars, connVars, appVars, bufVars, lifeVars, flushVars, vmVars, lockVars, swarmVars>>

\* commands::process_pending_clipboard
process_pending_clipboard(write_ok) ==
    /\ mobile
    /\ ninputs < MaxInputs
    /\ ninputs' = ninputs + 1
    /\ is_foreground' = TRUE
    /\ pending_clipboard' = None
    /\ IF pending_clipboard # None /\ write_ok
       THEN os_clipboard' = pending_clipboard /\ os_from_remote' = TRUE
       ELSE UNCHANGED <<os_clipboard, os_from_remote>>
    /\ UNCHANGED <<clipboard_history, vault_history, last_hash, mobile,
                   auto_sync_enabled, message_buffers, clipboard_rx, net_cmds,
                   recv_pc, recv_cur, mon_pc, mon_text, clock>>
    /\ UNCHANGED <<pairVars, syncVars, callVars, netVars, connVars, appVars, bufVars, lifeVars, flushVars, vmVars, lockVars, swarmVars>>

\* ---- specification ------------------------------------------------------

InitClipboard ==
    /\ clipboard_history = <<>>
    /\ vault_history = <<>>
    /\ os_clipboard = ""
    /\ os_from_remote = FALSE
    /\ last_hash = None
    /\ pending_clipboard = None
    /\ is_foreground = TRUE
    /\ mobile \in BOOLEAN
    /\ auto_sync_enabled \in BOOLEAN
    /\ message_buffers = [p \in RemoteDevices |-> <<>>]
    /\ clipboard_rx = <<>>
    /\ net_cmds = <<>>
    /\ recv_pc = "idle"
    /\ recv_cur = None
    /\ mon_pc = "idle"
    /\ mon_text = None
    /\ clock = 0
    /\ ninputs = 0

NextClipboard ==
    \/ \E text \in Texts : UserCopy(text)
    \/ MonitorRead
    \/ MonitorCompare
    \/ \E utc_now \in Timestamps : ClipboardChangeTask(utc_now)
    \/ \E content \in Texts, utc_now \in Timestamps : share_clipboard_content(content, utc_now)
    \/ handle_broadcast_clipboard
    \/ \E msg \in ClipboardMessages, write_ok \in BOOLEAN : ReceiveStart(msg, write_ok)
    \/ ReceiveFinish
    \/ \E visible \in BOOLEAN : set_app_visibility(visible)
    \/ \E write_ok \in BOOLEAN : process_pending_clipboard(write_ok)


\* The network-event task and the mobile lifecycle commands alone: the
\* clipboard monitor and the senders take no step.
NextReceive ==
    \/ \E msg \in ClipboardMessages, write_ok \in BOOLEAN : ReceiveStart(msg, write_ok)
    \/ ReceiveFinish
    \/ \E visible \in BOOLEAN : set_app_visibility(visible)
    \/ \E write_ok \in BOOLEAN : process_pending_clipboard(write_ok)

\* ---- the history on its own ---------------------------------------------

\* The entries a caller may hand to add_clipboard_entry: local and remote,
\* with any hash and any timestamp.
ClipboardEntries ==
    [content_hash : {hash_content(t) : t \in Texts}, timestamp : Timestamps,
     is_local : BOOLEAN]

\* One call of AppState::add_clipboard_entry (state.rs:138-178)
AddClipboardEntry(entry) ==
    /\ clipboard_history' = add_clipboard_entry(clipboard_history, entry)
    /\ vault_history' = flush_clipboard_history(clipboard_history')
    /\ UNCHANGED <<os_clipboard, os_from_remote, last_hash, pending_clipboard,
                   is_foreground, mobile, auto_sync_enabled, message_buffers,
                   clipboard_rx, net_cmds, recv_pc, recv_cur, mon_pc, mon_text,
                   clock, ninputs>>
    /\ UNCHANGED <<pairVars, syncVars, callVars, netVars, connVars, appVars, bufVars, lifeVars, flushVars, vmVars, lockVars, swarmVars>>

NextHistory == \E entry \in ClipboardEntries : AddClipboardEntry(entry)

\* ==========================================================================
\* SyncManager (clipboard/sync.rs)
\* ==========================================================================

\* ---- bounds -------------------------------------------------------------
MaxCalls == 4         \* calls of the SyncManager per run
MaxSyncTicks == 3     \* clock steps per run

RECENT_HASH_TTL_SECS == 10
MAX_RECENT_HASHES == 100

\* The clock advances by half the TTL.
SyncTickSeconds == RECENT_HASH_TTL_SECS \div 2

SyncHashes == {hash_content(t) : t \in {"a", "b"}}

\* HashMap::new()
EmptyMap == [h \in {} |-> 0]

\* HashMap::insert
MapInsert(map, key, value) ==
    [k \in DOMAIN map \cup {key} |-> IF k = key THEN value ELSE map[k]]

\* HashMap::retain
MapRetain(map, Keep(_)) == [k \in {x \in DOMAIN map : Keep(map[x])} |-> map[k]]

\* The entries left when the `skip` oldest are dropped (sync.rs:132-135);
\* among entries of equal time the order of the drain decides.
SkipOldest(map, skip) ==
    LET dropped == CHOOSE D \in SUBSET DOMAIN map :
                      /\ Cardinality(D) = skip
                      /\ \A d \in D, k \in (DOMAIN map) \ D : map[d] <= map[k]
    IN [k \in (DOMAIN map) \ dropped |-> map[k]]

\* SyncManager::cleanup_expired
cleanup_expired(map) ==
    LET retained == MapRetain(map, LAMBDA time : instant - time < RECENT_HASH_TTL_SECS)
    IN IF Cardinality(DOMAIN retained) > MAX_RECENT_HASHES
       THEN SkipOldest(retained, MAX_RECENT_HASHES \div 2)
       ELSE retained

\* The comparison with local_hash left out.
IsLocalHash_Never(hash, content_hash) == FALSE

\* sync.rs:86 and sync.rs:110, `self.local_hash.as_ref() == Some(..)`
IsLocalHash(hash, content_hash) == hash = content_hash

InitSync ==
    /\ recent_hashes = EmptyMap
    /\ local_hash = None
    /\ last_broadcast = None
    /\ sync_ret = None
    /\ instant = 0
    /\ ncalls = 0

\* SyncManager::should_broadcast
should_broadcast(content_hash, is_local) ==
    LET cleaned == cleanup_expired(recent_hashes)
        ret == /\ content_hash \notin DOMAIN cleaned
               /\ ~IsLocalHash(local_hash, content_hash)
               /\ is_local
    IN /\ ncalls < MaxCalls
       /\ ncalls' = ncalls + 1
       /\ recent_hashes' = cleaned
       /\ local_hash' = IF ret THEN content_hash ELSE local_hash
       /\ last_broadcast' = IF ret THEN content_hash ELSE last_broadcast
       /\ sync_ret' = [call |-> "should_broadcast", content_hash |-> content_hash,
                       is_local |-> is_local, ret |-> ret]
       /\ UNCHANGED instant
       /\ UNCHANGED <<pairVars, clipVars, callVars, netVars, connVars, appVars, bufVars, lifeVars, flushVars, vmVars, lockVars, swarmVars>>

\* SyncManager::on_received
on_received(content_hash) ==
    LET ret == ~IsLocalHash(local_hash, content_hash)
    IN /\ ncalls < MaxCalls
       /\ ncalls' = ncalls + 1
       /\ recent_hashes' = MapInsert(cleanup_expired(recent_hashes), content_hash, instant)
       /\ local_hash' = IF ret THEN content_hash ELSE local_hash
       /\ sync_ret' = [call |-> "on_received", content_hash |-> content_hash,
                       is_local |-> FALSE, ret |-> ret]
       /\ UNCHANGED <<last_broadcast, instant>>
       /\ UNCHANGED <<pairVars, clipVars, callVars, netVars, connVars, appVars, bufVars, lifeVars, flushVars, vmVars, lockVars, swarmVars>>

\* SyncManager::set_local_hash
set_local_hash(hash) ==
    /\ ncalls < MaxCalls
    /\ ncalls' = ncalls + 1
    /\ local_hash' = hash
    /\ sync_ret' = [call |-> "set_local_hash", content_hash |-> hash,
                    is_local |-> FALSE, ret |-> TRUE]
    /\ UNCHANGED <<recent_hashes, last_broadcast, instant>>
    /\ UNCHANGED <<pairVars, clipVars, callVars, netVars, connVars, appVars, bufVars, lifeVars, flushVars, vmVars, lockVars, swarmVars>>

TickSync ==
    /\ instant + SyncTickSeconds <= MaxSyncTicks * SyncTickSeconds
    /\ instant' = instant + SyncTickSeconds
    /\ UNCHANGED <<recent_hashes, local_hash, last_broadcast, sync_ret, ncalls>>
    /\ UNCHANGED <<pairVars, clipVars, callVars, netVars, connVars, appVars, bufVars, lifeVars, flushVars, vmVars, lockVars, swarmVars>>

NextSync ==
    \/ \E h \in SyncHashes, is_local \in BOOLEAN : should_broadcast(h, is_local)
    \/ \E h \in SyncHashes : on_received(h)
    \/ \E h \in SyncHashes : set_local_hash(h)
    \/ TickSync

\* ==========================================================================
\* Connections: NetworkManager (network/swarm.rs) and the peer events of the
\* network-event loop (lib.rs), on device Self
\* ==========================================================================

\* ---- bounds -------------------------------------------------------------
MaxInstant == 8       \* the manager's clock runs 0..MaxInstant
MaxDials == 5         \* dials the swarm is asked for per run
MaxSwarmEvents == 3   \* swarm events and reconnect_peers calls per run

MAX_CONNECTION_RETRIES == 3
RETRY_DELAY == 2      \* seconds

\* The peers on the network of device Self: A is paired with it, D is not.
ManagerPeers == {"A", Unpaired}

\* The one address mDNS reports for a peer
AddressOf(peer_id) == "/ip4/" \o peer_id \o "/tcp/4001"

NetworkEvent(ev, peer_id, addresses) ==
    [ev |-> ev, peer_id |-> peer_id, addresses |-> addresses]

\* The manager before any swarm event; `known` are the paired peers whose
\* PairedPeer carries a last known address.
NetworkStart(known) ==
    /\ manager_discovered_peers = [p \in {} |-> <<>>]
    /\ connected_peers = {}
    /\ pending_retries = [p \in {} |-> <<>>]
    /\ dialing = [p \in ManagerPeers |-> 0]
    /\ subscribed = {}
    /\ command_rx = <<>>
    /\ network_event_rx = <<>>
    /\ last_known_addresses =
           [p \in RemoteDevices |-> IF p \in known THEN <<AddressOf(p)>> ELSE <<>>]
    /\ peer_connections = [p \in {} |-> None]
    /\ ready_peers = {}
    /\ retry_instant = 0
    /\ retry_dials = [p \in ManagerPeers |-> 0]
    /\ ndials = 0
    /\ nevents = 0

\* A run in which the manager sees no swarm event.
NetworkIdle == NetworkStart({})

\* The device has been restarted: its paired peers come from the vault, with or
\* without a last known address for A, and the manager has discovered nobody.
InitNetwork == \E known \in SUBSET (RemoteDevices \cap ManagerPeers) : NetworkStart(known)

\* Swarm::dial for each peer of `peers`
Dial(peers) == [p \in ManagerPeers |-> IF p \in peers THEN dialing[p] + 1 ELSE dialing[p]]

Without(map, peers) == [p \in DOMAIN map \ peers |-> map[p]]

With(map, peer_id, value) ==
    [p \in DOMAIN map \cup {peer_id} |-> IF p = peer_id THEN value ELSE map[p]]

\* ---- NetworkManager::handle_swarm_event ---------------------------------

\* mdns::Event::Discovered, one (peer_id, addr): dials the address, records the
\* peer and reports it.
MdnsDiscovered(peer_id) ==
    /\ nevents < MaxSwarmEvents
    /\ ndials < MaxDials
    /\ Len(network_event_rx) < ChannelCapacity
    /\ dialing' = Dial({peer_id})
    /\ manager_discovered_peers' =
           With(manager_discovered_peers, peer_id, <<AddressOf(peer_id)>>)
    /\ network_event_rx' = Append(network_event_rx,
           NetworkEvent("PeerDiscovered", peer_id, <<AddressOf(peer_id)>>))
    /\ retry_dials' = [retry_dials EXCEPT ![peer_id] = 0]
    /\ ndials' = ndials + 1
    /\ nevents' = nevents + 1
    /\ UNCHANGED <<connected_peers, pending_retries, subscribed, command_rx,
                   last_known_addresses, peer_connections, ready_peers, retry_instant>>
    /\ UNCHANGED <<pairVars, clipVars, syncVars, callVars, connVars, appVars, bufVars, lifeVars, flushVars, vmVars, lockVars, swarmVars>>

\* mdns::Event::Expired, one peer
MdnsExpired(peer_id) ==
    /\ nevents < MaxSwarmEvents
    /\ Len(network_event_rx) < ChannelCapacity
    /\ peer_id \in DOMAIN manager_discovered_peers
    /\ manager_discovered_peers' = Without(manager_discovered_peers, {peer_id})
    /\ network_event_rx' = Append(network_event_rx, NetworkEvent("PeerLost", peer_id, <<>>))
    /\ nevents' = nevents + 1
    /\ UNCHANGED <<connected_peers, pending_retries, dialing, subscribed, command_rx,
                   last_known_addresses, peer_connections, ready_peers, retry_instant,
                   retry_dials, ndials>>
    /\ UNCHANGED <<pairVars, clipVars, syncVars, callVars, connVars, appVars, bufVars, lifeVars, flushVars, vmVars, lockVars, swarmVars>>

\* gossipsub::Event::Subscribed: logged, nothing else.
GossipsubSubscribed(peer_id) ==
    /\ nevents < MaxSwarmEvents
    /\ peer_id \in connected_peers
    /\ peer_id \notin subscribed
    /\ subscribed' = subscribed \cup {peer_id}
    /\ nevents' = nevents + 1
    /\ UNCHANGED <<manager_discovered_peers, connected_peers, pending_retries, dialing,
                   command_rx, network_event_rx, last_known_addresses,
                   peer_connections, ready_peers, retry_instant, retry_dials, ndials>>
    /\ UNCHANGED <<pairVars, clipVars, syncVars, callVars, connVars, appVars, bufVars, lifeVars, flushVars, vmVars, lockVars, swarmVars>>

\* gossipsub::Event::Unsubscribed: logged, nothing else.
GossipsubUnsubscribed(peer_id) ==
    /\ nevents < MaxSwarmEvents
    /\ peer_id \in subscribed
    /\ subscribed' = subscribed \ {peer_id}
    /\ nevents' = nevents + 1
    /\ UNCHANGED <<manager_discovered_peers, connected_peers, pending_retries, dialing,
                   command_rx, network_event_rx, last_known_addresses,
                   peer_connections, ready_peers, retry_instant, retry_dials, ndials>>
    /\ UNCHANGED <<pairVars, clipVars, syncVars, callVars, connVars, appVars, bufVars, lifeVars, flushVars, vmVars, lockVars, swarmVars>>

\* SwarmEvent::ConnectionEstablished, the first connection with the peer: of a
\* dial of this manager (outbound) or of a dial of the peer.
ConnectionEstablished(peer_id, outbound) ==
    /\ peer_id \notin connected_peers
    /\ Len(network_event_rx) < ChannelCapacity
    /\ IF outbound
       THEN /\ dialing[peer_id] > 0
            /\ dialing' = [dialing EXCEPT ![peer_id] = @ - 1]
            /\ UNCHANGED nevents
       ELSE /\ nevents < MaxSwarmEvents
            /\ nevents' = nevents + 1
            /\ UNCHANGED dialing
    /\ pending_retries' = Without(pending_retries, {peer_id})
    /\ connected_peers' = connected_peers \cup {peer_id}
    /\ network_event_rx' = Append(network_event_rx,
           NetworkEvent("PeerConnected", peer_id, <<>>))
    /\ UNCHANGED <<manager_discovered_peers, subscribed, command_rx,
                   last_known_addresses, peer_connections, ready_peers, retry_instant,
                   retry_dials, ndials>>
    /\ UNCHANGED <<pairVars, clipVars, syncVars, callVars, connVars, appVars, bufVars, lifeVars, flushVars, vmVars, lockVars, swarmVars>>

\* SwarmEvent::ConnectionClosed; gossipsub forgets the peer's subscriptions.
ConnectionClosed(peer_id) ==
    /\ nevents < MaxSwarmEvents
    /\ peer_id \in connected_peers
    /\ Len(network_event_rx) < ChannelCapacity
    /\ connected_peers' = connected_peers \ {peer_id}
    /\ subscribed' = subscribed \ {peer_id}
    /\ network_event_rx' = Append(network_event_rx,
           NetworkEvent("PeerDisconnected", peer_id, <<>>))
    /\ nevents' = nevents + 1
    /\ UNCHANGED <<manager_discovered_peers, pending_retries, dialing, command_rx,
                   last_known_addresses, peer_connections, ready_peers, retry_instant,
                   retry_dials, ndials>>
    /\ UNCHANGED <<pairVars, clipVars, syncVars, callVars, connVars, appVars, bufVars, lifeVars, flushVars, vmVars, lockVars, swarmVars>>

\* SwarmEvent::OutgoingConnectionError { peer_id: Some(peer_id) }: a dial of
\* this manager failed.
OutgoingConnectionError(peer_id) ==
    /\ dialing[peer_id] > 0
    /\ dialing' = [dialing EXCEPT ![peer_id] = @ - 1]
    /\ LET current_retry == IF peer_id \in DOMAIN pending_retries
                            THEN pending_retries[peer_id].retry_count
                            ELSE 0
       IN pending_retries' =
              IF peer_id \in DOMAIN manager_discovered_peers
              THEN IF current_retry < MAX_CONNECTION_RETRIES
                   THEN With(pending_retries, peer_id,
                             [address |-> manager_discovered_peers[peer_id][1],
                              retry_count |-> current_retry + 1,
                              next_retry |-> retry_instant + RETRY_DELAY])
                   ELSE Without(pending_retries, {peer_id})
              ELSE pending_retries
    /\ UNCHANGED <<manager_discovered_peers, connected_peers, subscribed, command_rx,
                   network_event_rx, last_known_addresses, peer_connections,
                   ready_peers, retry_instant, retry_dials, ndials, nevents>>
    /\ UNCHANGED <<pairVars, clipVars, syncVars, callVars, connVars, appVars, bufVars, lifeVars, flushVars, vmVars, lockVars, swarmVars>>

\* ---- NetworkManager::process_pending_retries ----------------------------

\* A tick of retry_interval: every entry that is due is removed and, unless the
\* peer is connected, dialed.
process_pending_retries ==
    LET to_retry == {p \in DOMAIN pending_retries :
                        retry_instant >= pending_retries[p].next_retry}
        dialed == to_retry \ connected_peers
    IN /\ to_retry # {}
       /\ ndials + Cardinality(dialed) <= MaxDials
       /\ pending_retries' = Without(pending_retries, to_retry)
       /\ dialing' = Dial(dialed)
       /\ retry_dials' = [p \in ManagerPeers |->
                             IF p \in dialed THEN retry_dials[p] + 1 ELSE retry_dials[p]]
       /\ ndials' = ndials + Cardinality(dialed)
       /\ UNCHANGED <<manager_discovered_peers, connected_peers, subscribed,
                      command_rx, network_event_rx, last_known_addresses,
                      peer_connections, ready_peers, retry_instant, nevents>>
       /\ UNCHANGED <<pairVars, clipVars, syncVars, callVars, connVars, appVars, bufVars, lifeVars, flushVars, vmVars, lockVars, swarmVars>>

\* Time passes.
AdvanceInstant ==
    /\ retry_instant < MaxInstant
    /\ retry_instant' = retry_instant + 1
    /\ UNCHANGED <<manager_discovered_peers, connected_peers, pending_retries, dialing,
                   subscribed, command_rx, network_event_rx, last_known_addresses,
                   peer_connections, ready_peers, retry_dials, ndials, nevents>>
    /\ UNCHANGED <<pairVars, clipVars, syncVars, callVars, connVars, appVars, bufVars, lifeVars, flushVars, vmVars, lockVars, swarmVars>>

\* ---- reconnect_peers ----------------------------------------------------

\* The paired peers that have a last known address, with their addresses
paired_peer_addresses ==
    [p \in {q \in DOMAIN last_known_addresses :
               is_peer_paired(Self, q) /\ last_known_addresses[q] # <<>>}
       |-> last_known_addresses[p]]

\* commands::reconnect_peers
reconnect_peers ==
    /\ nevents < MaxSwarmEvents
    /\ Len(command_rx) < ChannelCapacity
    /\ command_rx' = Append(command_rx,
           [cmd |-> "ReconnectPeers", paired_peer_addresses |-> paired_peer_addresses])
    /\ returned' = Ok("()")
    /\ nevents' = nevents + 1
    /\ UNCHANGED <<manager_discovered_peers, connected_peers, pending_retries, dialing,
                   subscribed, network_event_rx, last_known_addresses,
                   peer_connections, ready_peers, retry_instant, retry_dials, ndials>>
    /\ UNCHANGED <<pairVars, clipVars, syncVars, connVars, appVars, bufVars, lifeVars, flushVars, vmVars, lockVars, swarmVars>>

\* The peers the ReconnectPeers handler dials: the discovered peers that are not
\* connected and have an address. The addresses the command carries are not
\* looked at.
ReconnectDialed ==
    {p \in DOMAIN manager_discovered_peers :
        p \notin connected_peers /\ manager_discovered_peers[p] # <<>>}

\* NetworkManager::handle_command, NetworkCommand::ReconnectPeers
ReconnectPeers ==
    /\ command_rx # <<>>
    /\ Head(command_rx).cmd = "ReconnectPeers"
    /\ ndials + Cardinality(ReconnectDialed) <= MaxDials
    /\ command_rx' = Tail(command_rx)
    /\ pending_retries' = [p \in {} |-> <<>>]
    /\ dialing' = Dial(ReconnectDialed)
    /\ retry_dials' = [p \in ManagerPeers |-> 0]
    /\ ndials' = ndials + Cardinality(ReconnectDialed)
    /\ UNCHANGED <<manager_discovered_peers, connected_peers, subscribed,
                   network_event_rx, last_known_addresses, peer_connections,
                   ready_peers, retry_instant, nevents>>
    /\ UNCHANGED <<pairVars, clipVars, syncVars, callVars, connVars, appVars, bufVars, lifeVars, flushVars, vmVars, lockVars, swarmVars>>

\* ---- network-event task (lib.rs), the peer events -----------------------

Emitted(d, events, peer) ==
    [emitted EXCEPT ![d] = @ \cup {[event |-> ev, session_id |-> None, peer_id |-> peer]
                                     : ev \in events}]

IsConnected(connections, p) == p \in DOMAIN connections /\ connections[p] = "Connected"

\* ConnectionStatus::Disconnected for a peer that has an entry
Disconnect(peer_id) ==
    IF peer_id \in DOMAIN peer_connections
    THEN [peer_connections EXCEPT ![peer_id] = "Disconnected"]
    ELSE peer_connections

\* AtomicUsize::fetch_sub(1): wraps below 0.
fetch_sub(value) == value - 1

\* `prev <= 1` on a usize: a wrapped value is above 1.
AtMostOne(prev) == prev \in {0, 1}

\* One iteration of the loop for NetworkEvent::PeerDiscovered, PeerLost,
\* PeerConnected, PeerDisconnected, PeerReady or PeerNotReady.
handle_peer_event ==
    /\ network_event_rx # <<>>
    /\ network_event_rx' = Tail(network_event_rx)
    /\ LET e == Head(network_event_rx)
           is_paired == is_peer_paired(Self, e.peer_id)
           should_flush == /\ is_paired
                           /\ e.addresses # <<>>
                           /\ last_known_addresses[e.peer_id] # e.addresses
       IN \/ /\ e.ev = "PeerDiscovered"
             /\ last_known_addresses' =
                    IF should_flush
                    THEN [last_known_addresses EXCEPT ![e.peer_id] = e.addresses]
                    ELSE last_known_addresses
             /\ vault_peers' = IF should_flush
                               THEN flush_paired_peers(Self, paired_peers[Self])
                               ELSE vault_peers
             /\ discovered_peers' =
                    IF is_paired
                    THEN discovered_peers
                    ELSE [discovered_peers EXCEPT ![Self] = With(@, e.peer_id, e.addresses)]
             /\ emitted' = IF is_paired
                           THEN emitted
                           ELSE Emitted(Self, {"peer-discovered"}, e.peer_id)
             /\ UNCHANGED <<peer_connections, ready_peers, pending_dials, notified, woken>>
          \/ /\ e.ev = "PeerLost"
             /\ discovered_peers' = [discovered_peers EXCEPT ![Self] = Without(@, {e.peer_id})]
             /\ emitted' = Emitted(Self, {"peer-lost"}, e.peer_id)
             /\ UNCHANGED <<last_known_addresses, vault_peers, peer_connections, ready_peers,
                            pending_dials, notified, woken>>
          \/ /\ e.ev = "PeerConnected"
             /\ emitted' = Emitted(Self, {"peer-connected"}, e.peer_id)
             /\ UNCHANGED <<last_known_addresses, vault_peers, discovered_peers,
                            peer_connections, ready_peers, pending_dials, notified, woken>>
          \/ /\ e.ev = "PeerDisconnected"
             /\ peer_connections' = Disconnect(e.peer_id)
             /\ ready_peers' = ready_peers \ {e.peer_id}
             /\ emitted' = Emitted(Self, {"peer-connection-status(disconnected)",
                                          "peer-disconnected"}, e.peer_id)
             /\ UNCHANGED <<last_known_addresses, vault_peers, discovered_peers,
                            pending_dials, notified, woken>>
          \/ /\ e.ev = "PeerReady"
             /\ ready_peers' = ready_peers \cup {e.peer_id}
             /\ peer_connections' = With(peer_connections, e.peer_id, "Connected")
             /\ pending_dials' = fetch_sub(pending_dials)
             /\ notified' = IF AtMostOne(pending_dials) THEN {} ELSE notified
             /\ woken' = IF AtMostOne(pending_dials) THEN woken \cup notified ELSE woken
             /\ emitted' = Emitted(Self, {"peer-connection-status(connected)"}, e.peer_id)
             /\ UNCHANGED <<last_known_addresses, vault_peers, discovered_peers>>
          \/ /\ e.ev = "PeerNotReady"
             /\ ready_peers' = ready_peers \ {e.peer_id}
             /\ peer_connections' = Disconnect(e.peer_id)
             /\ emitted' = Emitted(Self, {"peer-connection-status(disconnected)"}, e.peer_id)
             /\ UNCHANGED <<last_known_addresses, vault_peers, discovered_peers,
                            pending_dials, notified, woken>>
    /\ UNCHANGED <<manager_discovered_peers, connected_peers, pending_retries, dialing,
                   subscribed, command_rx, retry_instant, retry_dials, ndials, nevents>>
    /\ UNCHANGED <<pairing_sessions, paired_peers, vault_open, cmdq, evq,
                   pending_responses, wire, acks, verified, next_sid, ncommands,
                   tampered, now>>
    /\ UNCHANGED <<reconnect_in_progress, ec_pc, ec_to_dial, ec_summary, nready>>
    /\ UNCHANGED <<clipVars, syncVars, callVars, appVars, bufVars, lifeVars, flushVars, vmVars, lockVars, swarmVars>>

\* ---- readiness events of the network layer ------------------------------

MaxReady == 3         \* readiness events the network layer sends per run

\* The network layer reports that a paired peer has subscribed to the
\* clipboard topic.
SendPeerReady(peer_id) ==
    /\ nready < MaxReady
    /\ Len(network_event_rx) < ChannelCapacity
    /\ network_event_rx' = Append(network_event_rx, NetworkEvent("PeerReady", peer_id, <<>>))
    /\ nready' = nready + 1
    /\ UNCHANGED <<manager_discovered_peers, connected_peers, pending_retries, dialing,
                   subscribed, command_rx, last_known_addresses, peer_connections,
                   ready_peers, retry_instant, retry_dials, ndials, nevents>>
    /\ UNCHANGED <<reconnect_in_progress, pending_dials, notified, woken, ec_pc,
                   ec_to_dial, ec_summary>>
    /\ UNCHANGED <<pairVars, clipVars, syncVars, callVars, appVars, bufVars, lifeVars, flushVars, vmVars, lockVars, swarmVars>>

\* The network layer reports that a paired peer has unsubscribed.
SendPeerNotReady(peer_id) ==
    /\ nready < MaxReady
    /\ Len(network_event_rx) < ChannelCapacity
    /\ network_event_rx' = Append(network_event_rx,
           NetworkEvent("PeerNotReady", peer_id, <<>>))
    /\ nready' = nready + 1
    /\ UNCHANGED <<manager_discovered_peers, connected_peers, pending_retries, dialing,
                   subscribed, command_rx, last_known_addresses, peer_connections,
                   ready_peers, retry_instant, retry_dials, ndials, nevents>>
    /\ UNCHANGED <<reconnect_in_progress, pending_dials, notified, woken, ec_pc,
                   ec_to_dial, ec_summary>>
    /\ UNCHANGED <<pairVars, clipVars, syncVars, callVars, appVars, bufVars, lifeVars, flushVars, vmVars, lockVars, swarmVars>>

\* ---- commands::ensure_connected -----------------------------------------

\* The calls of ensure_connected of a run; each is made once.
EnsureCalls == {"c1", "c2"}

PairedIds(d) == {paired_peers[d][i].peer_id : i \in 1..Len(paired_peers[d])}

\* get_connection_summary
get_connection_summary ==
    LET connected == Cardinality({p \in PairedIds(Self) : IsConnected(peer_connections, p)})
    IN [total_peers |-> Len(paired_peers[Self]),
        connected |-> connected,
        failed |-> Len(paired_peers[Self]) - connected]

\* No call takes the guard for held.
GuardHeld_Never(previous) == FALSE

\* What reconnect_in_progress.swap(true) returned tells whether another call
\* holds the guard.
GuardHeld(previous) == previous

\* The peers left in status Connecting as they are.
ResetConnecting_Skipped(connections) == connections

\* Every peer in status Connecting becomes Disconnected.
ResetConnecting(connections) ==
    [p \in DOMAIN connections |->
        IF connections[p] = "Connecting" THEN "Disconnected" ELSE connections[p]]

ConnUnchanged ==
    UNCHANGED <<manager_discovered_peers, connected_peers, pending_retries, dialing,
                subscribed, network_event_rx, last_known_addresses, ready_peers,
                retry_instant, retry_dials, ndials, nevents, nready,
                pairVars, clipVars, syncVars, callVars, appVars, bufVars, lifeVars, flushVars, vmVars, lockVars, swarmVars>>

\* The guard: reconnect_in_progress.swap(true). A call that finds it set
\* creates its Notified future and waits; the others go on.
ensure_connected_guard(c) ==
    /\ ec_pc[c] = "idle"
    /\ reconnect_in_progress' = TRUE
    /\ IF GuardHeld(reconnect_in_progress)
       THEN /\ ec_pc' = [ec_pc EXCEPT ![c] = "waiting for the other"]
            /\ notified' = notified \cup {c}
       ELSE /\ ec_pc' = [ec_pc EXCEPT ![c] = "select"]
            /\ UNCHANGED notified
    /\ UNCHANGED <<pending_dials, woken, ec_to_dial, ec_summary, peer_connections,
                   command_rx>>
    /\ ConnUnchanged

\* total_peers and to_dial, with the two early returns.
ensure_connected_select(c) ==
    /\ ec_pc[c] = "select"
    /\ LET to_dial == {p \in PairedIds(Self) : ~IsConnected(peer_connections, p)}
       IN IF Len(paired_peers[Self]) = 0
          THEN /\ reconnect_in_progress' = FALSE
               /\ ec_summary' = [ec_summary EXCEPT ![c] =
                      [total_peers |-> 0, connected |-> 0, failed |-> 0]]
               /\ ec_pc' = [ec_pc EXCEPT ![c] = "returned"]
               /\ UNCHANGED ec_to_dial
          ELSE IF to_dial = {}
          THEN /\ reconnect_in_progress' = FALSE
               /\ ec_summary' = [ec_summary EXCEPT ![c] = get_connection_summary]
               /\ ec_pc' = [ec_pc EXCEPT ![c] = "returned"]
               /\ UNCHANGED ec_to_dial
          ELSE /\ ec_to_dial' = [ec_to_dial EXCEPT ![c] = to_dial]
               /\ ec_pc' = [ec_pc EXCEPT ![c] = "mark"]
               /\ UNCHANGED <<reconnect_in_progress, ec_summary>>
    /\ UNCHANGED <<pending_dials, notified, woken, peer_connections, command_rx>>
    /\ ConnUnchanged

\* The peers of to_dial become Connecting.
ensure_connected_mark(c) ==
    /\ ec_pc[c] = "mark"
    /\ peer_connections' =
           [p \in DOMAIN peer_connections \cup ec_to_dial[c] |->
               IF p \in ec_to_dial[c] THEN "Connecting" ELSE peer_connections[p]]
    /\ ec_pc' = [ec_pc EXCEPT ![c] = "store"]
    /\ UNCHANGED <<reconnect_in_progress, pending_dials, notified, woken, ec_to_dial,
                   ec_summary, command_rx>>
    /\ ConnUnchanged

\* pending_dials.store(to_dial.len())
ensure_connected_store(c) ==
    /\ ec_pc[c] = "store"
    /\ pending_dials' = Cardinality(ec_to_dial[c])
    /\ ec_pc' = [ec_pc EXCEPT ![c] = "send"]
    /\ UNCHANGED <<reconnect_in_progress, notified, woken, ec_to_dial, ec_summary,
                   peer_connections, command_rx>>
    /\ ConnUnchanged

\* ReconnectPeers is sent with the addresses of the peers of to_dial that have any.
ensure_connected_send(c) ==
    /\ ec_pc[c] = "send"
    /\ Len(command_rx) < ChannelCapacity
    /\ command_rx' = Append(command_rx,
           [cmd |-> "ReconnectPeers",
            paired_peer_addresses |->
                [p \in {q \in ec_to_dial[c] : last_known_addresses[q] # <<>>}
                    |-> last_known_addresses[p]]])
    /\ ec_pc' = [ec_pc EXCEPT ![c] = "notified"]
    /\ UNCHANGED <<reconnect_in_progress, pending_dials, notified, woken, ec_to_dial,
                   ec_summary, peer_connections>>
    /\ ConnUnchanged

\* dials_complete_notify.notified(): the wait begins.
ensure_connected_notified(c) ==
    /\ ec_pc[c] = "notified"
    /\ notified' = notified \cup {c}
    /\ ec_pc' = [ec_pc EXCEPT ![c] = "waiting"]
    /\ UNCHANGED <<reconnect_in_progress, pending_dials, woken, ec_to_dial, ec_summary,
                   peer_connections, command_rx>>
    /\ ConnUnchanged

\* The wait of the call that holds the guard ends: it was woken, or the
\* timeout has elapsed.
ensure_connected_waited(c) ==
    /\ ec_pc[c] = "waiting"
    /\ notified' = notified \ {c}
    /\ woken' = woken \ {c}
    /\ ec_pc' = [ec_pc EXCEPT ![c] = "reset"]
    /\ UNCHANGED <<reconnect_in_progress, pending_dials, ec_to_dial, ec_summary,
                   peer_connections, command_rx>>
    /\ ConnUnchanged

\* The wait of a call that found the guard set ends: it returns the summary.
ensure_connected_other(c) ==
    /\ ec_pc[c] = "waiting for the other"
    /\ notified' = notified \ {c}
    /\ woken' = woken \ {c}
    /\ ec_summary' = [ec_summary EXCEPT ![c] = get_connection_summary]
    /\ ec_pc' = [ec_pc EXCEPT ![c] = "returned"]
    /\ UNCHANGED <<reconnect_in_progress, pending_dials, ec_to_dial, peer_connections,
                   command_rx>>
    /\ ConnUnchanged

\* The peers still Connecting become Disconnected.
ensure_connected_reset(c) ==
    /\ ec_pc[c] = "reset"
    /\ peer_connections' = ResetConnecting(peer_connections)
    /\ ec_pc' = [ec_pc EXCEPT ![c] = "clear"]
    /\ UNCHANGED <<reconnect_in_progress, pending_dials, notified, woken, ec_to_dial,
                   ec_summary, command_rx>>
    /\ ConnUnchanged

\* pending_dials.store(0) and reconnect_in_progress.store(false)
ensure_connected_clear(c) ==
    /\ ec_pc[c] = "clear"
    /\ pending_dials' = 0
    /\ reconnect_in_progress' = FALSE
    /\ ec_pc' = [ec_pc EXCEPT ![c] = "summary"]
    /\ UNCHANGED <<notified, woken, ec_to_dial, ec_summary, peer_connections, command_rx>>
    /\ ConnUnchanged

\* get_connection_summary(state).await: the call returns.
ensure_connected_return(c) ==
    /\ ec_pc[c] = "summary"
    /\ ec_summary' = [ec_summary EXCEPT ![c] = get_connection_summary]
    /\ ec_pc' = [ec_pc EXCEPT ![c] = "returned"]
    /\ UNCHANGED <<reconnect_in_progress, pending_dials, notified, woken, ec_to_dial,
                   peer_connections, command_rx>>
    /\ ConnUnchanged

\* ==========================================================================
\* Offline buffers: AppState.message_buffers (state.rs), on device Self
\* ==========================================================================

\* ---- bounds -------------------------------------------------------------
MaxBufferCalls == 4   \* calls of the buffer methods per run

SYNC_MAX_BUFFER_SIZE == 1
SYNC_TTL_SECONDS == 60 * 5

\* The readings of Utc::now() of a run: two instants, and the instants one
\* second before, at and after the time to live
BufferInstants ==
    {0, 1, SYNC_TTL_SECONDS - 1, SYNC_TTL_SECONDS, SYNC_TTL_SECONDS + 1}

BufferHashes == {hash_content(t) : t \in Texts}

\* Vec::drain(0..n): the vector without its first n elements
Drain(seq, n) == SubSeq(seq, n + 1, Len(seq))

\* The truncation of store_buffered_message left out: the message is pushed
\* and nothing is drained.
store_buffered_message_NoDrain(buffers, peer_id, message) ==
    [buffers EXCEPT ![peer_id] = Append(buffers[peer_id], message)]

\* AppState::store_buffered_message: message_buffers afterwards. The message is
\* pushed on the peer's buffer, and the front of the buffer is drained to
\* leave SYNC_MAX_BUFFER_SIZE messages.
store_buffered_message(buffers, peer_id, message) ==
    LET pushed == Append(buffers[peer_id], message)
        buffer == IF Len(pushed) > SYNC_MAX_BUFFER_SIZE
                  THEN Drain(pushed, Len(pushed) - SYNC_MAX_BUFFER_SIZE)
                  ELSE pushed
    IN [buffers EXCEPT ![peer_id] = buffer]

\* now.signed_duration_since(msg.timestamp) < ttl
IsFresh(msg, utc_now) == utc_now - msg.timestamp < SYNC_TTL_SECONDS

\* AppState::get_buffer_for_peer: the messages of the peer's buffer that are
\* younger than SYNC_TTL_SECONDS, in the buffer's order.
get_buffer_for_peer(buffers, peer_id, utc_now) ==
    SelectSeq(buffers[peer_id], LAMBDA msg : IsFresh(msg, utc_now))

\* AppState::find_message_for_peer_by_hash: the first message of the peer's
\* buffer with the hash, as a sequence of at most one message (Option).
find_message_for_peer_by_hash(buffers, peer_id, hash) ==
    LET found == SelectSeq(buffers[peer_id], LAMBDA msg : msg.content_hash = hash)
    IN IF found = <<>> THEN <<>> ELSE <<Head(found)>>

\* The removal not confined to the peer's buffer: the messages with the hash
\* are removed from every buffer.
remove_buffered_message_FromAll(buffers, peer_id, hash) ==
    [p \in DOMAIN buffers |-> SelectSeq(buffers[p], LAMBDA msg : msg.content_hash # hash)]

\* AppState::remove_buffered_message_for_peer: message_buffers afterwards.
remove_buffered_message_for_peer(buffers, peer_id, hash) ==
    [buffers EXCEPT
        ![peer_id] = SelectSeq(buffers[peer_id], LAMBDA msg : msg.content_hash # hash)]

\* The record of a call of one of the four methods
BufferCall(fn, peer_id, hash, messages) ==
    [fn |-> fn, peer_id |-> peer_id, hash |-> hash, now |-> clock,
     before |-> message_buffers[peer_id], messages |-> messages,
     seq |-> buffer_call.seq + 1]

\* What a buffer call leaves alone
BufferUnchanged ==
    /\ UNCHANGED <<clipboard_history, vault_history, os_clipboard, os_from_remote,
                   last_hash, pending_clipboard, is_foreground, mobile,
                   auto_sync_enabled, clipboard_rx, net_cmds, recv_pc, recv_cur,
                   mon_pc, mon_text, ninputs>>
    /\ UNCHANGED <<pairVars, syncVars, callVars, netVars, connVars, appVars, lifeVars, flushVars, vmVars, lockVars, swarmVars>>

\* A message built now for the peer is stored in its buffer.
StoreBufferedMessage(peer_id, hash) ==
    /\ buffer_call.seq < MaxBufferCalls
    /\ LET message == [content_hash |-> hash, timestamp |-> clock]
       IN /\ message_buffers' = store_buffered_message(message_buffers, peer_id, message)
          /\ buffer_call' = BufferCall("store_buffered_message", peer_id, hash, <<message>>)
    /\ UNCHANGED clock
    /\ BufferUnchanged

GetBufferForPeer(peer_id) ==
    /\ buffer_call.seq < MaxBufferCalls
    /\ buffer_call' = BufferCall("get_buffer_for_peer", peer_id, None,
                                 get_buffer_for_peer(message_buffers, peer_id, clock))
    /\ UNCHANGED <<message_buffers, clock>>
    /\ BufferUnchanged

FindMessageForPeerByHash(peer_id, hash) ==
    /\ buffer_call.seq < MaxBufferCalls
    /\ buffer_call' = BufferCall("find_message_for_peer_by_hash", peer_id, hash,
                                 find_message_for_peer_by_hash(message_buffers, peer_id, hash))
    /\ UNCHANGED <<message_buffers, clock>>
    /\ BufferUnchanged

RemoveBufferedMessageForPeer(peer_id, hash) ==
    /\ buffer_call.seq < MaxBufferCalls
    /\ message_buffers' = remove_buffered_message_for_peer(message_buffers, peer_id, hash)
    /\ buffer_call' = BufferCall("remove_buffered_message_for_peer", peer_id, hash, <<>>)
    /\ UNCHANGED clock
    /\ BufferUnchanged

\* Time passes between two calls.
AdvanceUtc(utc_now) ==
    /\ utc_now > clock
    /\ clock' = utc_now
    /\ UNCHANGED <<message_buffers, buffer_call>>
    /\ BufferUnchanged

\* No buffer method has been called yet.
NoBufferCall ==
    buffer_call = [fn |-> None, peer_id |-> None, hash |-> None, now |-> 0,
                   before |-> <<>>, messages |-> <<>>, seq |-> 0]

NextBuffer ==
    \/ \E peer_id \in RemoteDevices, hash \in BufferHashes :
          StoreBufferedMessage(peer_id, hash)
    \/ \E peer_id \in RemoteDevices : GetBufferForPeer(peer_id)
    \/ \E peer_id \in RemoteDevices, hash \in BufferHashes :
          FindMessageForPeerByHash(peer_id, hash)
    \/ \E peer_id \in RemoteDevices, hash \in BufferHashes :
          RemoveBufferedMessageForPeer(peer_id, hash)
    \/ \E utc_now \in BufferInstants : AdvanceUtc(utc_now)

\* ==========================================================================
\* Mobile lifecycle: focus loss, the Resumed task (lib.rs) and
\* process_pending_clipboard (commands.rs) step by step, on device Self
\* ==========================================================================

\* ---- bounds -------------------------------------------------------------
MaxLifecycle == 3     \* focus losses, resumes and process_pending_clipboard calls per run

\* What the lifecycle steps leave alone of the clipboard state
LifecycleClipUnchanged ==
    UNCHANGED <<clipboard_history, last_hash, mobile, auto_sync_enabled,
                message_buffers, clipboard_rx, net_cmds, recv_pc, recv_cur, mon_pc,
                mon_text, clock, ninputs>>

\* What the steps of the Resumed task and of process_pending_clipboard leave
\* alone of the other state
LifecycleUnchanged ==
    /\ LifecycleClipUnchanged
    /\ UNCHANGED <<vault_history, nqueued>>
    /\ UNCHANGED <<pairVars, syncVars, connVars, appVars, bufVars, flushVars, vmVars, lockVars, swarmVars>>

\* RunEvent::WindowEvent Focused(false) on the mobile build: the app goes to the
\* background, ready_peers is cleared and everything is flushed to the vault.
WindowFocusLost ==
    /\ mobile
    /\ nlifecycle < MaxLifecycle
    /\ nlifecycle' = nlifecycle + 1
    /\ is_foreground' = FALSE
    /\ ready_peers' = {}
    /\ vault_peers' = flush_all_to_vault(Self)
    /\ vault_history' = flush_all_history(Self)
    /\ LifecycleClipUnchanged
    /\ UNCHANGED <<os_clipboard, os_from_remote, pending_clipboard>>
    /\ UNCHANGED <<pairing_sessions, paired_peers, cmdq, evq, pending_responses,
                   wire, emitted, acks, verified, next_sid, ncommands, tampered,
                   now, discovered_peers, vault_open>>
    /\ UNCHANGED <<manager_discovered_peers, connected_peers, pending_retries, dialing,
                   subscribed, command_rx, network_event_rx, last_known_addresses,
                   peer_connections, retry_instant, retry_dials, ndials, nevents>>
    /\ UNCHANGED <<resumed_pc, resumed_pending, ppc_pc, ppc_pending, nqueued, napplied>>
    /\ UNCHANGED <<syncVars, callVars, connVars, appVars, bufVars, flushVars, vmVars, lockVars, swarmVars>>

\* RunEvent::Resumed: the task it spawns sets is_foreground.
resumed_set_foreground ==
    /\ resumed_pc = "idle"
    /\ nlifecycle < MaxLifecycle
    /\ nlifecycle' = nlifecycle + 1
    /\ is_foreground' = TRUE
    /\ resumed_pc' = "reconnect"
    /\ UNCHANGED <<os_clipboard, os_from_remote, pending_clipboard, resumed_pending,
                   ppc_pc, ppc_pending, napplied>>
    /\ UNCHANGED <<callVars, netVars>>
    /\ LifecycleUnchanged

\* The task sends ReconnectPeers with the last known addresses of the paired
\* peers; the pending clipboard is looked at on the mobile build only.
resumed_send_reconnect ==
    /\ resumed_pc = "reconnect"
    /\ Len(command_rx) < ChannelCapacity
    /\ command_rx' = Append(command_rx,
           [cmd |-> "ReconnectPeers", paired_peer_addresses |-> paired_peer_addresses])
    /\ resumed_pc' = IF mobile THEN "take" ELSE "idle"
    /\ UNCHANGED <<os_clipboard, os_from_remote, pending_clipboard, is_foreground,
                   resumed_pending, ppc_pc, ppc_pending, napplied, nlifecycle>>
    /\ UNCHANGED <<manager_discovered_peers, connected_peers, pending_retries, dialing,
                   subscribed, network_event_rx, last_known_addresses,
                   peer_connections, ready_peers, retry_instant, retry_dials, ndials,
                   nevents>>
    /\ UNCHANGED callVars
    /\ LifecycleUnchanged

\* The task takes pending_clipboard under its write lock.
resumed_take_pending ==
    /\ resumed_pc = "take"
    /\ resumed_pending' = pending_clipboard
    /\ pending_clipboard' = None
    /\ resumed_pc' = "write"
    /\ UNCHANGED <<os_clipboard, os_from_remote, is_foreground, ppc_pc, ppc_pending,
                   napplied, nlifecycle>>
    /\ UNCHANGED <<callVars, netVars>>
    /\ LifecycleUnchanged

\* The task writes what it took to the OS clipboard; a failed write is logged.
resumed_set_clipboard(write_ok) ==
    /\ resumed_pc = "write"
    /\ write_ok \/ resumed_pending # None
    /\ IF resumed_pending # None /\ write_ok
       THEN /\ os_clipboard' = resumed_pending
            /\ os_from_remote' = TRUE
            /\ napplied' = napplied + 1
       ELSE UNCHANGED <<os_clipboard, os_from_remote, napplied>>
    /\ resumed_pending' = None
    /\ resumed_pc' = "idle"
    /\ UNCHANGED <<pending_clipboard, is_foreground, ppc_pc, ppc_pending, nlifecycle>>
    /\ UNCHANGED <<callVars, netVars>>
    /\ LifecycleUnchanged

\* commands::process_pending_clipboard, its first block: is_foreground is set.
process_pending_clipboard_foreground ==
    /\ mobile
    /\ ppc_pc = "idle"
    /\ nlifecycle < MaxLifecycle
    /\ nlifecycle' = nlifecycle + 1
    /\ is_foreground' = TRUE
    /\ ppc_pc' = "take"
    /\ UNCHANGED <<os_clipboard, os_from_remote, pending_clipboard, resumed_pc,
                   resumed_pending, ppc_pending, napplied>>
    /\ UNCHANGED <<callVars, netVars>>
    /\ LifecycleUnchanged

\* Its second block: pending_clipboard is taken under its write lock.
process_pending_clipboard_take ==
    /\ ppc_pc = "take"
    /\ ppc_pending' = pending_clipboard
    /\ pending_clipboard' = None
    /\ ppc_pc' = "write"
    /\ UNCHANGED <<os_clipboard, os_from_remote, is_foreground, resumed_pc,
                   resumed_pending, napplied, nlifecycle>>
    /\ UNCHANGED <<callVars, netVars>>
    /\ LifecycleUnchanged

\* The rest: what was taken is written to the OS clipboard and returned.
process_pending_clipboard_write(write_ok) ==
    /\ ppc_pc = "write"
    /\ write_ok \/ ppc_pending # None
    /\ IF ppc_pending # None /\ write_ok
       THEN /\ os_clipboard' = ppc_pending
            /\ os_from_remote' = TRUE
            /\ napplied' = napplied + 1
       ELSE UNCHANGED <<os_clipboard, os_from_remote, napplied>>
    /\ returned' = IF ppc_pending = None THEN Ok(None)
                   ELSE IF write_ok THEN Ok(ppc_pending) ELSE Err("Clipboard")
    /\ ppc_pending' = None
    /\ ppc_pc' = "idle"
    /\ UNCHANGED <<pending_clipboard, is_foreground, resumed_pc, resumed_pending,
                   nlifecycle>>
    /\ UNCHANGED netVars
    /\ LifecycleUnchanged

\* Neither the Resumed task nor process_pending_clipboard is running.
LifecycleIdle ==
    /\ resumed_pc = "idle"
    /\ resumed_pending = None
    /\ ppc_pc = "idle"
    /\ ppc_pending = None
    /\ nqueued = 0
    /\ napplied = 0
    /\ nlifecycle = 0

\* The messages of a lifecycle run: the timestamp only orders the history, so
\* one timestamp stands for all of them.
ResumeMessages == {msg \in ClipboardMessages : msg.timestamp = 0}

\* The network-event task receiving clipboard messages while the app goes to
\* the background and is resumed, and the manager taking the ReconnectPeers
\* commands.
NextResume ==
    \/ \E msg \in ResumeMessages, write_ok \in BOOLEAN : ReceiveStart(msg, write_ok)
    \/ ReceiveFinish
    \/ WindowFocusLost
    \/ resumed_set_foreground
    \/ resumed_send_reconnect
    \/ resumed_take_pending
    \/ \E write_ok \in BOOLEAN : resumed_set_clipboard(write_ok)
    \/ process_pending_clipboard_foreground
    \/ process_pending_clipboard_take
    \/ \E write_ok \in BOOLEAN : process_pending_clipboard_write(write_ok)
    \/ ReconnectPeers

\* ==========================================================================
\* Flush-on-write: the mutators of paired_peers and clipboard_history, each as
\* its write of the state in memory and its flush, on device Self
\* ==========================================================================

\* What a mutator leaves alone besides the state it writes
FlushUnchanged ==
    /\ UNCHANGED <<pairing_sessions, cmdq, evq, pending_responses, wire, emitted, acks,
                   verified, next_sid, ncommands, tampered, now, discovered_peers,
                   vault_open>>
    /\ UNCHANGED <<os_clipboard, os_from_remote, last_hash, pending_clipboard,
                   is_foreground, mobile, auto_sync_enabled, message_buffers,
                   clipboard_rx, net_cmds, recv_pc, recv_cur, mon_pc, mon_text, clock,
                   ninputs>>
    /\ UNCHANGED unlocking
    /\ UNCHANGED <<syncVars, callVars, netVars, connVars, appVars, bufVars, lifeVars, vmVars, lockVars, swarmVars>>

\* commands::remove_paired_peer, the write: the peer is taken off paired_peers.
remove_paired_peer_retain(peer_id) ==
    /\ "remove_paired_peer" \notin unflushed
    /\ unflushed' = unflushed \cup {"remove_paired_peer"}
    /\ paired_peers' = [paired_peers EXCEPT
           ![Self] = Retain(@, LAMBDA p : p.peer_id # peer_id)]
    /\ UNCHANGED <<vault_peers, clipboard_history, vault_history>>
    /\ FlushUnchanged

\* commands::remove_paired_peer, the flush
remove_paired_peer_flush ==
    /\ "remove_paired_peer" \in unflushed
    /\ unflushed' = unflushed \ {"remove_paired_peer"}
    /\ vault_peers' = flush_paired_peers(Self, paired_peers[Self])
    /\ UNCHANGED <<paired_peers, clipboard_history, vault_history>>
    /\ FlushUnchanged

\* AppState::add_clipboard_entry, the block under the write lock of the history
add_clipboard_entry_insert(entry) ==
    /\ "add_clipboard_entry" \notin unflushed
    /\ unflushed' = unflushed \cup {"add_clipboard_entry"}
    /\ clipboard_history' = add_clipboard_entry(clipboard_history, entry)
    /\ UNCHANGED <<paired_peers, vault_peers, vault_history>>
    /\ FlushUnchanged

\* AppState::add_clipboard_entry, the flush
add_clipboard_entry_flush ==
    /\ "add_clipboard_entry" \in unflushed
    /\ unflushed' = unflushed \ {"add_clipboard_entry"}
    /\ vault_history' = flush_clipboard_history(clipboard_history)
    /\ UNCHANGED <<paired_peers, vault_peers, clipboard_history>>
    /\ FlushUnchanged

\* commands::clear_clipboard_history, the write
clear_clipboard_history_clear ==
    /\ "clear_clipboard_history" \notin unflushed
    /\ unflushed' = unflushed \cup {"clear_clipboard_history"}
    /\ clipboard_history' = <<>>
    /\ UNCHANGED <<paired_peers, vault_peers, vault_history>>
    /\ FlushUnchanged

\* commands::clear_clipboard_history, the flush
clear_clipboard_history_flush ==
    /\ "clear_clipboard_history" \in unflushed
    /\ unflushed' = unflushed \ {"clear_clipboard_history"}
    /\ vault_history' = flush_clipboard_history(clipboard_history)
    /\ UNCHANGED <<paired_peers, vault_peers, clipboard_history>>
    /\ FlushUnchanged

\* No mutator is between its write and its flush, and no unlock_vault between
\* its loads and its store.
AllFlushed ==
    /\ unflushed = {}
    /\ unlocking = {}

\* The limits the settings page offers
HistoryLimits == 1..HistoryLimit

\* The user changes the settings
UpdateSettings == \E limit \in HistoryLimits, keep \in BOOLEAN : update_settings(limit, keep)

\* The user locks the vault of this device
LockVault == lock_vault(Self)

\* The user unlocks the vault of this device
UnlockVaultLoad == unlock_vault_load(Self)

UnlockVaultStore == unlock_vault_store(Self)

\* The entries of a flush run: one timestamp and one origin stand for all.
FlushEntries == {entry \in ClipboardEntries : entry.timestamp = 0 /\ entry.is_local}

\* The mutators running concurrently, with the settings changed and the
\* vault locked and unlocked in between.
NextFlush ==
    \/ \E peer_id \in RemoteDevices : remove_paired_peer_retain(peer_id)
    \/ remove_paired_peer_flush
    \/ \E entry \in FlushEntries : add_clipboard_entry_insert(entry)
    \/ add_clipboard_entry_flush
    \/ clear_clipboard_history_clear
    \/ clear_clipboard_history_flush
    \/ UpdateSettings
    \/ LockVault
    \/ UnlockVaultLoad
    \/ UnlockVaultStore

\* ==========================================================================
\* VaultManager (vault/manager.rs), the salt (vault/salt.rs) and read_vault
\* (vault/storage.rs)
\* ==========================================================================

\* ---- bounds -------------------------------------------------------------
MaxVaultCalls == 5    \* calls on the manager per run
MaxDamage == 1        \* times the files are damaged from outside per run

\* The PIN the vault was created with, and another one
RightPin == "1234"
VaultPins == {RightPin, "0000"}

\* The salt of the installation, and the one a later get_or_create_salt draws
InstalledSalt == "salt-1"
FreshSalt == "salt-2"

\* The store keys of the manager
Slots == {"clipboard_history", "paired_peers", "device_identity", "libp2p_keypair"}

\* What a setter is given to store
StoredValues == {"v1", "v2"}

\* A store with nothing in it
EmptyStore == [slot \in Slots |-> None]

\* No vault file on disk
NoVaultFile == [key |-> <<>>, store |-> EmptyStore, damage |-> "missing"]

\* vault_path.exists()
vault_path_exists == vault_file.damage # "missing"

\* serde_json::to_vec (Keypair::to_protobuf_encoding for the keypair): the bytes
\* of a value
to_vec(value) == "bytes(" \o value \o ")"

\* serde_json::from_slice (Keypair::from_protobuf_encoding): the value the
\* bytes are the encoding of
from_slice(data) == CHOOSE value \in StoredValues : to_vec(value) = data

\* What a getter returns when the store has nothing under the key: Vec::new()
\* for the history and the peers, None for the identity and the keypair
Absent(slot) == IF slot \in {"clipboard_history", "paired_peers"} THEN "[]" ELSE None

\* What a getter returns for what the store holds under the key
Stored(store, slot) == IF store[slot] = None THEN Absent(slot) ELSE from_slice(store[slot])

\* VaultManager::derive_key, Argon2id: the key is a function of PIN and salt
\* and differs when either differs.
derive_key(pin, salt) == <<pin, salt>>

\* What the bytes of the vault file may be: as saved, with bytes altered, cut
\* short, or cut to fewer bytes than a nonce
Damages == {"corrupted", "truncated", "too short"}

\* The error texts of the Stronghold library, which open() searches for the
\* words decrypt, invalid, authentication and mac: a text with one of the words
\* and a text with none of them.
DecryptText == "decrypt"
OtherText == "io"
StrongholdTexts == {DecryptText, OtherText}

\* error_msg.contains("decrypt") || contains("invalid") || contains("authentication")
\* || contains("mac")
MeansInvalidPin(text) == text = DecryptText

InvalidPin == Err("InvalidPin")
NotOpen == Err("Storage(Vault is not open)")

\* What lock() leaves in self.stronghold without its last assignment
Locked_Kept(current) == current

\* What lock() leaves in self.stronghold
Locked(current) == <<>>

\* Nothing has been passed to a setter
NothingSet == [slot \in Slots |-> None]
NothingWritten == [set |-> NothingSet, kept |-> NothingSet, saved |-> NothingSet]

\* The values of base, replaced by those set
Override(base, set) == [slot \in Slots |-> IF set[slot] # None THEN set[slot] ELSE base[slot]]

\* A save that writes the key and leaves the store out of the file
Saved_NoStore(open_vault) == [key |-> open_vault.key, store |-> EmptyStore, damage |-> "intact"]

\* Stronghold::save: the vault file afterwards
Saved(open_vault) == [key |-> open_vault.key, store |-> open_vault.store, damage |-> "intact"]

\* The record of a call on the manager
VaultCall(fn, ret) == [fn |-> fn, ret |-> ret, seq |-> vm_call.seq + 1]

\* What a call on the manager leaves alone
VaultUnchanged ==
    /\ UNCHANGED ndamage
    /\ UNCHANGED <<pairVars, clipVars, syncVars, callVars, netVars, connVars, appVars,
                   bufVars, lifeVars, flushVars, lockVars, swarmVars>>

\* vault::salt::get_or_create_salt: the salt, read from the file or drawn and
\* written to a new file
get_or_create_salt == IF salt_file = None THEN FreshSalt ELSE salt_file

\* VaultManager::open. text: what the Stronghold library says when it cannot
\* load a file whose bytes are not as they were saved. A file that is as saved
\* fails to load under another key with a decryption error, and loads with
\* its client under its own key.
open(pin, text) ==
    LET key == derive_key(pin, get_or_create_salt)
        loads == vault_file.damage = "intact" /\ vault_file.key = key
        error == IF vault_file.damage = "intact" THEN DecryptText ELSE text
    IN /\ vm_call.seq < MaxVaultCalls
       /\ text = DecryptText \/ vault_file.damage \notin {"intact", "missing"}
       /\ IF ~vault_path_exists
          THEN /\ vm_call' = VaultCall("open", Err("Storage(Vault does not exist)"))
               /\ UNCHANGED <<stronghold, salt_file, written>>
          ELSE /\ salt_file' = get_or_create_salt
               /\ IF loads
                  THEN /\ stronghold' = <<[key |-> key, store |-> vault_file.store]>>
                       /\ vm_call' = VaultCall("open", Ok("()"))
                       /\ written' = [written EXCEPT !.set = NothingSet]
                  ELSE /\ UNCHANGED <<stronghold, written>>
                       /\ vm_call' = VaultCall("open",
                              IF MeansInvalidPin(error) THEN InvalidPin
                              ELSE Err("Storage(Failed to open vault)"))
       /\ UNCHANGED vault_file
       /\ VaultUnchanged

\* VaultManager::create. save_ok: whether Stronghold::save succeeds.
create(pin, save_ok) ==
    LET key == derive_key(pin, get_or_create_salt)
    IN /\ vm_call.seq < MaxVaultCalls
       /\ save_ok \/ ~vault_path_exists
       /\ IF vault_path_exists
          THEN /\ vm_call' = VaultCall("create", Err("Storage(Vault already exists)"))
               /\ UNCHANGED <<stronghold, vault_file, salt_file, written>>
          ELSE /\ salt_file' = get_or_create_salt
               /\ IF save_ok
                  THEN /\ vault_file' = Saved([key |-> key, store |-> EmptyStore])
                       /\ stronghold' = <<[key |-> key, store |-> EmptyStore]>>
                       /\ vm_call' = VaultCall("create", Ok("()"))
                       /\ written' = NothingWritten
                  ELSE /\ vm_call' = VaultCall("create", Err("Storage(Failed to save vault)"))
                       /\ UNCHANGED <<stronghold, vault_file, written>>
       /\ VaultUnchanged

\* VaultManager::new in a process started after the last one ended: what the
\* old manager held and had not saved is gone.
VaultManager_new ==
    /\ vm_call.seq < MaxVaultCalls
    /\ stronghold # <<>>
    /\ stronghold' = <<>>
    /\ vm_call' = VaultCall("new", Ok("()"))
    /\ written' = [written EXCEPT !.set = NothingSet]
    /\ UNCHANGED <<vault_file, salt_file>>
    /\ VaultUnchanged

\* VaultManager::lock. save_ok: whether Stronghold::save succeeds; a failure is
\* logged and the manager is locked all the same.
lock(save_ok) ==
    /\ vm_call.seq < MaxVaultCalls
    /\ save_ok \/ stronghold # <<>>
    /\ vault_file' = IF stronghold # <<>> /\ save_ok THEN Saved(stronghold[1]) ELSE vault_file
    /\ stronghold' = Locked(stronghold)
    /\ vm_call' = VaultCall("lock", Ok("()"))
    /\ written' = IF stronghold = <<>> THEN written
                  ELSE [written EXCEPT !.kept = Override(@, written.set),
                                       !.saved = IF save_ok THEN Override(@, written.set)
                                                 ELSE @]
    /\ UNCHANGED salt_file
    /\ VaultUnchanged

\* VaultManager::get_clipboard_history, get_paired_peers, get_device_identity
\* and get_libp2p_keypair: what the store holds under the key
Getter(slot) ==
    /\ vm_call.seq < MaxVaultCalls
    /\ vm_call' = VaultCall("get_" \o slot,
           IF stronghold = <<>> THEN NotOpen ELSE Ok(Stored(stronghold[1].store, slot)))
    /\ UNCHANGED <<stronghold, vault_file, salt_file, written>>
    /\ VaultUnchanged

\* VaultManager::set_clipboard_history, set_paired_peers, set_device_identity
\* and set_libp2p_keypair: the value is inserted in the store
Setter(slot, value) ==
    /\ vm_call.seq < MaxVaultCalls
    /\ IF stronghold = <<>>
       THEN /\ vm_call' = VaultCall("set_" \o slot, NotOpen)
            /\ UNCHANGED <<stronghold, written>>
       ELSE /\ vm_call' = VaultCall("set_" \o slot, Ok("()"))
            /\ stronghold' = [stronghold EXCEPT ![1].store[slot] = to_vec(value)]
            /\ written' = [written EXCEPT !.set[slot] = value]
    /\ UNCHANGED <<vault_file, salt_file>>
    /\ VaultUnchanged

\* VaultManager::flush
flush(save_ok) ==
    /\ vm_call.seq < MaxVaultCalls
    /\ save_ok \/ stronghold # <<>>
    /\ IF stronghold = <<>>
       THEN /\ vm_call' = VaultCall("flush", NotOpen)
            /\ UNCHANGED <<vault_file, written>>
       ELSE IF save_ok
            THEN /\ vm_call' = VaultCall("flush", Ok("()"))
                 /\ vault_file' = Saved(stronghold[1])
                 /\ written' = [written EXCEPT !.kept = Override(@, written.set),
                                                !.saved = Override(@, written.set)]
            ELSE /\ vm_call' = VaultCall("flush", Err("Storage(Failed to flush vault)"))
                 /\ UNCHANGED <<vault_file, written>>
    /\ UNCHANGED <<stronghold, salt_file>>
    /\ VaultUnchanged

\* vault::storage::read_vault: what it returns for a key
read_vault(key) ==
    IF vault_file.damage = "too short" THEN Err("Storage(Vault file too short)")
    ELSE IF vault_file.damage # "intact" \/ vault_file.key # key THEN InvalidPin
    ELSE Ok("VaultData")

\* read_vault called with the key of a PIN and the salt on disk
ReadVault(pin) ==
    /\ vm_call.seq < MaxVaultCalls
    /\ salt_file # None
    /\ vm_call' = VaultCall("read_vault", read_vault(derive_key(pin, salt_file)))
    /\ UNCHANGED <<stronghold, vault_file, salt_file, written>>
    /\ VaultUnchanged

\* The vault file is damaged from outside the app.
DamageVaultFile(damage) ==
    /\ ndamage < MaxDamage
    /\ ndamage' = ndamage + 1
    /\ vault_file' = [vault_file EXCEPT !.damage = damage]
    /\ UNCHANGED <<stronghold, salt_file, vm_call, written>>
    /\ UNCHANGED <<pairVars, clipVars, syncVars, callVars, netVars, connVars, appVars,
                   bufVars, lifeVars, flushVars, lockVars, swarmVars>>

\* The salt file is deleted from outside the app.
DeleteSaltFile ==
    /\ ndamage < MaxDamage
    /\ salt_file # None
    /\ ndamage' = ndamage + 1
    /\ salt_file' = None
    /\ UNCHANGED <<stronghold, vault_file, vm_call, written>>
    /\ UNCHANGED <<pairVars, clipVars, syncVars, callVars, netVars, connVars, appVars,
                   bufVars, lifeVars, flushVars, lockVars, swarmVars>>

\* The app has started on an installation whose vault was created with
\* RightPin: the manager is new, the files are as they were saved.
VaultClosed ==
    /\ stronghold = <<>>
    /\ vault_file = [key |-> derive_key(RightPin, InstalledSalt), store |-> EmptyStore,
                     damage |-> "intact"]
    /\ salt_file = InstalledSalt
    /\ vm_call = [fn |-> None, ret |-> None, seq |-> 0]
    /\ ndamage = 0
    /\ written = NothingWritten

\* A new installation: no vault file and no salt file yet
VaultFresh ==
    /\ stronghold = <<>>
    /\ vault_file = NoVaultFile
    /\ salt_file = None
    /\ vm_call = [fn |-> None, ret |-> None, seq |-> 0]
    /\ ndamage = 0
    /\ written = NothingWritten

\* The manager from the first start of the app on: the vault is created, then
\* written, saved, locked and opened, in this process or in a later one.
NextRoundTrip ==
    \/ \E pin \in VaultPins, save_ok \in BOOLEAN : create(pin, save_ok)
    \/ \E pin \in VaultPins : open(pin, DecryptText)
    \/ \E save_ok \in BOOLEAN : lock(save_ok)
    \/ \E slot \in Slots : Getter(slot)
    \/ \E slot \in Slots, value \in StoredValues : Setter(slot, value)
    \/ \E save_ok \in BOOLEAN : flush(save_ok)
    \/ VaultManager_new

NextVaultManager ==
    \/ \E pin \in VaultPins, text \in StrongholdTexts : open(pin, text)
    \/ \E save_ok \in BOOLEAN : lock(save_ok)
    \/ \E slot \in Slots : Getter(slot)
    \/ \E slot \in Slots, value \in StoredValues : Setter(slot, value)
    \/ \E save_ok \in BOOLEAN : flush(save_ok)
    \/ \E pin \in VaultPins : ReadVault(pin)
    \/ \E damage \in Damages : DamageVaultFile(damage)
    \/ DeleteSaltFile

\* The settings of a run that does not change them.
SettingsDefault ==
    /\ clipboard_history_limit = HistoryLimit
    /\ keep_history = TRUE

\* No ensure_connected call has been made.
ConnectIdle ==
    /\ reconnect_in_progress = FALSE
    /\ pending_dials = 0
    /\ notified = {}
    /\ woken = {}
    /\ ec_pc = [c \in EnsureCalls |-> "idle"]
    /\ ec_to_dial = [c \in EnsureCalls |-> {}]
    /\ ec_summary = [c \in EnsureCalls |-> None]
    /\ nready = 0

NextConnect ==
    \/ \E c \in EnsureCalls : ensure_connected_guard(c)
    \/ \E c \in EnsureCalls : ensure_connected_select(c)
    \/ \E c \in EnsureCalls : ensure_connected_mark(c)
    \/ \E c \in EnsureCalls : ensure_connected_store(c)
    \/ \E c \in EnsureCalls : ensure_connected_send(c)
    \/ \E c \in EnsureCalls : ensure_connected_notified(c)
    \/ \E c \in EnsureCalls : ensure_connected_waited(c)
    \/ \E c \in EnsureCalls : ensure_connected_other(c)
    \/ \E c \in EnsureCalls : ensure_connected_reset(c)
    \/ \E c \in EnsureCalls : ensure_connected_clear(c)
    \/ \E c \in EnsureCalls : ensure_connected_return(c)
    \/ \E p \in RemoteDevices : SendPeerReady(p)
    \/ \E p \in RemoteDevices : SendPeerNotReady(p)
    \/ ReconnectPeers
    \/ handle_peer_event

NextNetwork ==
    \/ \E p \in ManagerPeers : MdnsDiscovered(p)
    \/ \E p \in ManagerPeers : MdnsExpired(p)
    \/ \E p \in ManagerPeers : GossipsubSubscribed(p)
    \/ \E p \in ManagerPeers : GossipsubUnsubscribed(p)
    \/ \E p \in ManagerPeers, outbound \in BOOLEAN : ConnectionEstablished(p, outbound)
    \/ \E p \in ManagerPeers : ConnectionClosed(p)
    \/ \E p \in ManagerPeers : OutgoingConnectionError(p)
    \/ process_pending_retries
    \/ AdvanceInstant
    \/ reconnect_peers
    \/ ReconnectPeers
    \/ handle_peer_event

\* ==========================================================================
\* Tasks, locks and channels
\* ==========================================================================

MaxStarted == 3       \* commands, clipboard changes and swarm events per run

\* The tasks of the app: the NetworkManager's run loop, the network-event
\* task, the clipboard-change task, the clipboard monitor's poll loop and two
\* tasks that run the commands the frontend invokes.
Tasks == {"manager", "events", "clipboard", "monitor", "c1", "c2"}
CommandTasks == {"c1", "c2"}

\* The RwLocks: fields of AppState, and ClipboardMonitor.last_hash
Locks == {"device_identity", "settings", "paired_peers", "discovered_peers",
          "clipboard_history", "pairing_sessions", "network_command_tx",
          "vault_manager", "last_hash"}

\* The steps of a function that matter to the locks: lock.read().await and
\* lock.write().await with the guard kept, the drop of guards, and
\* tx.send(message).await on a channel.
Read(rwlock) == <<"read", rwlock>>
Write(rwlock) == <<"write", rwlock>>
Drop(locks) == <<"drop", locks>>
Send(channel, message) == <<"send", channel, message>>
\* lock.read().await.field: the guard is dropped at the end of the statement
Peek(rwlock) == <<Read(rwlock), Drop({rwlock})>>

\* AppState::flush_clipboard_history, keep_history being true
flush_clipboard_history_steps ==
    Peek("settings") \o
    <<Write("vault_manager"), Read("clipboard_history"),
      Drop({"clipboard_history", "vault_manager"})>>

\* AppState::flush_paired_peers
flush_paired_peers_steps ==
    <<Write("vault_manager"), Read("paired_peers"), Drop({"paired_peers", "vault_manager"})>>

\* AppState::flush_all_to_vault
flush_all_to_vault_steps ==
    <<Write("vault_manager")>> \o Peek("settings") \o
    <<Read("clipboard_history"), Drop({"clipboard_history"}),
      Read("paired_peers"), Drop({"paired_peers", "vault_manager"})>>

\* AppState::add_clipboard_entry
add_clipboard_entry_steps ==
    <<Write("clipboard_history"), Read("settings"), Drop({"settings", "clipboard_history"})>>
        \o flush_clipboard_history_steps

\* commands::initiate_pairing: `sessions`, `device_identity` and `tx` live to
\* the end of the function.
initiate_pairing_steps ==
    Peek("paired_peers") \o Peek("discovered_peers") \o
    <<Write("pairing_sessions"), Read("device_identity"), Read("network_command_tx"),
      Send("command", "SendPairingRequest"),
      Drop({"network_command_tx", "device_identity", "pairing_sessions"})>>

\* commands::respond_to_pairing, the user accepting
respond_to_pairing_steps ==
    <<Write("pairing_sessions"), Drop({"pairing_sessions"}),
      Read("network_command_tx"), Read("device_identity"),
      Send("command", "SendPairingChallenge"),
      Drop({"device_identity", "network_command_tx"})>>

\* commands::confirm_pairing, the initiator typing the PIN of the session
confirm_pairing_steps ==
    <<Write("pairing_sessions"), Drop({"pairing_sessions"}), Read("device_identity")>>
        \o Peek("pairing_sessions") \o
    <<Read("network_command_tx"), Send("command", "SendPairingConfirm"),
      Drop({"network_command_tx", "device_identity"})>>

\* for peer in paired_peers.iter() { tx.send(BroadcastClipboard).await }
broadcast_steps ==
    [i \in 1..Len(paired_peers[Self]) |-> Send("command", "BroadcastClipboard")]

\* commands::share_clipboard_content
share_clipboard_content_steps ==
    <<Read("device_identity"), Read("paired_peers"), Read("network_command_tx")>>
        \o broadcast_steps \o add_clipboard_entry_steps \o
    <<Drop({"network_command_tx", "paired_peers", "device_identity"})>>

\* commands::remove_paired_peer
remove_paired_peer_steps ==
    Peek("paired_peers") \o <<Write("paired_peers"), Drop({"paired_peers"})>>
        \o flush_paired_peers_steps

\* The clipboard-change task, for one change
clipboard_change_steps ==
    Peek("settings") \o <<Read("device_identity"), Read("paired_peers")>>
        \o broadcast_steps \o add_clipboard_entry_steps \o
    <<Drop({"paired_peers", "device_identity"})>>

\* ClipboardMonitor::start, one turn of the loop in which the text has changed
monitor_poll_steps ==
    <<Write("last_hash"), Send("clipboard", "ClipboardChange"), Drop({"last_hash"})>>

\* The NetworkEvent::ClipboardReceived handler, a paired peer's message that
\* decrypts, on a desktop
ClipboardReceived_steps ==
    Peek("device_identity") \o <<Read("paired_peers")>> \o
    <<Write("last_hash"), Drop({"last_hash"})>> \o add_clipboard_entry_steps \o
    <<Drop({"paired_peers"})>>

\* The NetworkEvent::PeerNameUpdated handler, the name of a paired peer changing
PeerNameUpdated_steps ==
    <<Write("discovered_peers"), Drop({"discovered_peers"}),
      Write("paired_peers"), Drop({"paired_peers"})>> \o flush_paired_peers_steps

\* The commands the frontend invokes
Commands == {"initiate_pairing", "respond_to_pairing", "confirm_pairing",
             "share_clipboard_content", "remove_paired_peer", "flush_vault"}

\* The events the swarm makes the manager send
SwarmEvents == {"ClipboardReceived", "PeerNameUpdated"}

\* The steps of what a task is running
Program(name) ==
    CASE name = "initiate_pairing" -> initiate_pairing_steps
      [] name = "respond_to_pairing" -> respond_to_pairing_steps
      [] name = "confirm_pairing" -> confirm_pairing_steps
      [] name = "share_clipboard_content" -> share_clipboard_content_steps
      [] name = "remove_paired_peer" -> remove_paired_peer_steps
      [] name = "flush_vault" -> flush_all_to_vault_steps
      [] name = "clipboard_change" -> clipboard_change_steps
      [] name = "monitor_poll" -> monitor_poll_steps
      [] name = "ClipboardReceived" -> ClipboardReceived_steps
      [] name = "PeerNameUpdated" -> PeerNameUpdated_steps
      [] name = "BroadcastClipboard" -> <<Send("event", "ClipboardSent")>>
      [] name \in {"swarm " \o e : e \in SwarmEvents} ->
            <<Send("event", CHOOSE e \in SwarmEvents : name = "swarm " \o e)>>
      [] OTHER -> <<>>

\* The step a task is at
Instruction(task) == Program(running[task])[at[task]]

\* The channel's queue
Queue(channel) ==
    CASE channel = "command" -> command_rx
      [] channel = "event" -> network_event_rx
      [] channel = "clipboard" -> clipboard_rx

\* The task that receives from the channel
Receiver(channel) ==
    CASE channel = "command" -> "manager"
      [] channel = "event" -> "events"
      [] channel = "clipboard" -> "clipboard"

\* tokio::sync::RwLock: a read guard can be given while no write guard is
\* alive, a write guard while no guard is alive.
Compatible(rwlock, mode) ==
    IF mode = "read" THEN \A h \in held : h[2] = rwlock => h[3] = "read"
                     ELSE \A h \in held : h[2] # rwlock

IsWaiting(task) == \E rwlock \in Locks : \E i \in 1..Len(waiting[rwlock]) : waiting[rwlock][i][1] = task

\* What a step of a task leaves alone
TaskUnchanged ==
    /\ UNCHANGED <<manager_discovered_peers, connected_peers, pending_retries, dialing,
                   subscribed, last_known_addresses, peer_connections, ready_peers,
                   retry_instant, retry_dials, ndials, nevents>>
    /\ UNCHANGED <<clipboard_history, vault_history, os_clipboard, os_from_remote,
                   last_hash, pending_clipboard, is_foreground, mobile,
                   auto_sync_enabled, message_buffers, net_cmds, recv_pc, recv_cur,
                   mon_pc, mon_text, clock, ninputs>>
    /\ UNCHANGED <<pairVars, syncVars, callVars, connVars, appVars, bufVars, lifeVars,
                   flushVars, vmVars, swarmVars>>

ChannelsUnchanged == UNCHANGED <<command_rx, network_event_rx, clipboard_rx>>

\* The task goes on to its next step, or has finished.
Advance(task) ==
    IF at[task] = Len(Program(running[task]))
    THEN /\ running' = [running EXCEPT ![task] = "idle"]
         /\ at' = [at EXCEPT ![task] = 1]
    ELSE /\ at' = [at EXCEPT ![task] = @ + 1]
         /\ UNCHANGED running

\* lock.read().await or lock.write().await: the guard is given at once when the
\* lock allows it and nobody waits, and the task waits in line otherwise.
Acquire(task) ==
    /\ running[task] # "idle"
    /\ ~IsWaiting(task)
    /\ Instruction(task)[1] \in {"read", "write"}
    /\ LET mode == Instruction(task)[1]
           rwlock == Instruction(task)[2]
       IN IF waiting[rwlock] = <<>> /\ Compatible(rwlock, mode)
          THEN /\ held' = held \cup {<<task, rwlock, mode>>}
               /\ Advance(task)
               /\ UNCHANGED waiting
          ELSE /\ waiting' = [waiting EXCEPT ![rwlock] = Append(@, <<task, mode>>)]
               /\ UNCHANGED <<held, running, at>>
    /\ UNCHANGED nstarted
    /\ ChannelsUnchanged
    /\ TaskUnchanged

\* The lock gives its guard to the task that has waited longest.
Grant(rwlock) ==
    /\ waiting[rwlock] # <<>>
    /\ Compatible(rwlock, waiting[rwlock][1][2])
    /\ held' = held \cup {<<waiting[rwlock][1][1], rwlock, waiting[rwlock][1][2]>>}
    /\ waiting' = [waiting EXCEPT ![rwlock] = Tail(@)]
    /\ Advance(waiting[rwlock][1][1])
    /\ UNCHANGED nstarted
    /\ ChannelsUnchanged
    /\ TaskUnchanged

\* Guards go out of scope.
DropGuards(task) ==
    /\ running[task] # "idle"
    /\ Instruction(task)[1] = "drop"
    /\ held' = {h \in held : ~(h[1] = task /\ h[2] \in Instruction(task)[2])}
    /\ Advance(task)
    /\ UNCHANGED <<waiting, nstarted>>
    /\ ChannelsUnchanged
    /\ TaskUnchanged

\* tx.send(message).await completes when the channel has a free slot.
SendOn(task) ==
    /\ running[task] # "idle"
    /\ Instruction(task)[1] = "send"
    /\ Len(Queue(Instruction(task)[2])) < ChannelCapacity
    /\ LET channel == Instruction(task)[2]
           message == Instruction(task)[3]
       IN /\ command_rx' = IF channel = "command" THEN Append(command_rx, message)
                           ELSE command_rx
          /\ network_event_rx' = IF channel = "event" THEN Append(network_event_rx, message)
                                 ELSE network_event_rx
          /\ clipboard_rx' = IF channel = "clipboard" THEN Append(clipboard_rx, message)
                             ELSE clipboard_rx
    /\ Advance(task)
    /\ UNCHANGED <<held, waiting, nstarted>>
    /\ TaskUnchanged

\* The frontend invokes a command; it runs on the first task that is free.
InvokeCommand(task, command) ==
    /\ nstarted < MaxStarted
    /\ running[task] = "idle"
    /\ task = "c1" \/ running["c1"] # "idle"
    /\ running' = [running EXCEPT ![task] = command]
    /\ nstarted' = nstarted + 1
    /\ UNCHANGED <<held, waiting, at>>
    /\ ChannelsUnchanged
    /\ TaskUnchanged

\* The monitor finds the text of the OS clipboard changed.
MonitorPoll ==
    /\ nstarted < MaxStarted
    /\ running["monitor"] = "idle"
    /\ running' = [running EXCEPT !["monitor"] = "monitor_poll"]
    /\ nstarted' = nstarted + 1
    /\ UNCHANGED <<held, waiting, at>>
    /\ ChannelsUnchanged
    /\ TaskUnchanged

\* The swarm hands the manager an event: swarm.select_next_some() in run().
SwarmEvent(event) ==
    /\ nstarted < MaxStarted
    /\ running["manager"] = "idle"
    /\ running' = [running EXCEPT !["manager"] = "swarm " \o event]
    /\ nstarted' = nstarted + 1
    /\ UNCHANGED <<held, waiting, at>>
    /\ ChannelsUnchanged
    /\ TaskUnchanged

\* What a task that has received a message goes on to run
Handle(task, message) ==
    IF Program(message) = <<>> THEN UNCHANGED running
    ELSE running' = [running EXCEPT ![task] = message]

\* command_rx.recv() in run()
ManagerRecv ==
    /\ running["manager"] = "idle"
    /\ command_rx # <<>>
    /\ command_rx' = Tail(command_rx)
    /\ Handle("manager", Head(command_rx))
    /\ UNCHANGED <<held, waiting, at, nstarted, network_event_rx, clipboard_rx>>
    /\ TaskUnchanged

\* network_event_rx.recv() in the network-event task
EventsRecv ==
    /\ running["events"] = "idle"
    /\ network_event_rx # <<>>
    /\ network_event_rx' = Tail(network_event_rx)
    /\ Handle("events", Head(network_event_rx))
    /\ UNCHANGED <<held, waiting, at, nstarted, command_rx, clipboard_rx>>
    /\ TaskUnchanged

\* clipboard_rx.recv() in the clipboard-change task
ClipboardRecv ==
    /\ running["clipboard"] = "idle"
    /\ clipboard_rx # <<>>
    /\ clipboard_rx' = Tail(clipboard_rx)
    /\ running' = [running EXCEPT !["clipboard"] = "clipboard_change"]
    /\ UNCHANGED <<held, waiting, at, nstarted, command_rx, network_event_rx>>
    /\ TaskUnchanged

NextTasks ==
    \/ \E task \in CommandTasks, command \in Commands : InvokeCommand(task, command)
    \/ MonitorPoll
    \/ \E event \in SwarmEvents : SwarmEvent(event)
    \/ ManagerRecv
    \/ EventsRecv
    \/ ClipboardRecv
    \/ \E task \in Tasks : Acquire(task)
    \/ \E rwlock \in Locks : Grant(rwlock)
    \/ \E task \in Tasks : DropGuards(task)
    \/ \E task \in Tasks : SendOn(task)

\* No task is in a function or a handler, and no lock is held.
TasksIdle ==
    /\ held = {}
    /\ waiting = [rwlock \in Locks |-> <<>>]
    /\ running = [task \in Tasks |-> "idle"]
    /\ at = [task \in Tasks |-> 1]
    /\ nstarted = 0

\* The swarm has no connection open.
NoConnections == established = [p \in ManagerPeers |-> 0]

\* ==========================================================================
\* Specifications
\* ==========================================================================

\* The clipboard device of a pairing run: nothing happens on it.
ClipboardIdle ==
    /\ InitClipboard
    /\ mobile = FALSE
    /\ auto_sync_enabled = TRUE

\* The pairing state of a clipboard run: the device starts paired with the
\* peers of one of the peer lists, and no pairing is under way.
PairingDone ==
    /\ \E peers \in PeerLists :
          paired_peers = [d \in Devices |-> IF d = Self THEN peers ELSE <<>>]
    /\ vault_peers = paired_peers
    /\ vault_open = [d \in Devices |-> TRUE]
    /\ pairing_sessions = [d \in Devices |-> <<>>]
    /\ cmdq = [d \in Devices |-> <<>>]
    /\ evq = [d \in Devices |-> <<>>]
    /\ pending_responses = [d \in Devices |-> {}]
    /\ wire = {}
    /\ emitted = [d \in Devices |-> {}]
    /\ acks = {}
    /\ verified = [d \in Devices |-> {}]
    /\ next_sid = 0
    /\ ncommands = 0
    /\ tampered = 0
    /\ now = 0
    /\ discovered_peers = [d \in Devices |-> [p \in {} |-> <<>>]]

\* The SyncManager of a run that makes no call of it.
SyncIdle == InitSync

\* No command has been called yet.
NoCall == returned = None

\* A pairing run: two unpaired devices, the clipboard and the SyncManager idle.
InitSpecPairing == InitPairing /\ ClipboardIdle /\ SyncIdle /\ NoCall /\ NetworkIdle /\ ConnectIdle /\ SettingsDefault /\ NoBufferCall /\ LifecycleIdle /\ AllFlushed /\ VaultClosed /\ TasksIdle /\ NoConnections

SpecPairing == InitSpecPairing /\ [][NextPairing]_vars

\* A clipboard run: the device is paired, on either build, auto sync on or off.
InitSpecClipboard == PairingDone /\ InitClipboard /\ SyncIdle /\ NoCall /\ NetworkIdle /\ ConnectIdle /\ SettingsDefault /\ NoBufferCall /\ LifecycleIdle /\ AllFlushed /\ VaultClosed /\ TasksIdle /\ NoConnections

SpecClipboard == InitSpecClipboard /\ [][NextClipboard]_vars

\* A run of the network event task alone: the device is paired, on either build.
InitReceive == PairingDone /\ InitClipboard /\ auto_sync_enabled = TRUE /\ SyncIdle /\ NoCall /\ NetworkIdle /\ ConnectIdle /\ SettingsDefault /\ NoBufferCall /\ LifecycleIdle /\ AllFlushed /\ VaultClosed /\ TasksIdle /\ NoConnections

SpecReceive == InitReceive /\ [][NextReceive]_vars

\* A run of add_clipboard_entry calls on an empty history.
InitSpecHistory == PairingDone /\ ClipboardIdle /\ SyncIdle /\ NoCall /\ NetworkIdle /\ ConnectIdle /\ SettingsDefault /\ NoBufferCall /\ LifecycleIdle /\ AllFlushed /\ VaultClosed /\ TasksIdle /\ NoConnections

SpecHistory == InitSpecHistory /\ [][NextHistory]_vars

\* The clipboard history with the settings changed and the vault locked and
\* unlocked in between
NextSettings ==
    \/ NextHistory
    \/ UpdateSettings
    \/ LockVault
    \/ UnlockVaultLoad
    \/ UnlockVaultStore

InitSpecSettings == InitSpecHistory

InitSpecResume == InitReceive

SpecResume == InitSpecResume /\ [][NextResume]_vars

InitSpecFlush == InitSpecHistory

SpecFlush == InitSpecFlush /\ [][NextFlush]_vars

InitSpecVaultManager == InitSpecHistory

SpecVaultManager == InitSpecVaultManager /\ [][NextVaultManager]_vars

\* The device is paired; every task waits for work.
InitSpecTasks == InitSpecHistory

SpecTasks == InitSpecTasks /\ [][NextTasks]_vars

InitSpecRoundTrip == PairingDone /\ ClipboardIdle /\ SyncIdle /\ NoCall /\ NetworkIdle /\ ConnectIdle /\ SettingsDefault /\ NoBufferCall /\ LifecycleIdle /\ AllFlushed /\ VaultFresh /\ TasksIdle /\ NoConnections

SpecRoundTrip == InitSpecRoundTrip /\ [][NextRoundTrip]_vars

InitSpecBuffer == InitSpecHistory

SpecBuffer == InitSpecBuffer /\ [][NextBuffer]_vars

SpecSettings == InitSpecSettings /\ [][NextSettings]_vars

\* What generate_pin() may return in a run of the commands
FreshPins == {"314159", "271828"}

\* The ids of the sessions device d holds: the frontend calls the commands
\* with the id of a session it shows.
SessionIdsOf(d) ==
    {pairing_sessions[d][i].session_id : i \in 1..Len(pairing_sessions[d])}

\* The frontend calls a command on a session the device holds.
FrontendResponds(d, session_id, accept, pin) ==
    /\ session_id \in SessionIdsOf(d)
    /\ respond_to_pairing(d, session_id, accept, pin)

FrontendConfirms(d, session_id, pin) ==
    /\ session_id \in SessionIdsOf(d)
    /\ confirm_pairing(d, session_id, pin)

FrontendCancels(d, session_id) ==
    /\ session_id \in SessionIdsOf(d)
    /\ cancel_pairing(d, session_id)

\* The pairing commands called on the sessions a device holds, with the swarm
\* manager and the event loop of both devices; nobody alters a message.
NextCommands ==
    \/ \E d \in Initiators, p \in Devices : initiate_pairing(d, p)
    \/ \E d \in Devices, sid \in SessionIds, accept \in BOOLEAN, pin \in FreshPins :
          FrontendResponds(d, sid, accept, pin)
    \/ \E d \in Devices, sid \in SessionIds, pin \in FreshPins :
          FrontendConfirms(d, sid, pin)
    \/ \E d \in Devices, sid \in SessionIds : FrontendCancels(d, sid)
    \/ \E d \in Devices : handle_command(d)
    \/ \E d \in Devices : handle_swarm_event(d)
    \/ \E d \in Devices : handle_network_event(d)

SpecCommands == InitSpecPairing /\ [][NextCommands]_vars

\* A pairing under way: A has called initiate_pairing("B") and B's event loop
\* has handled the request (the state SpecPairing is in after these steps);
\* ncommands counts the commands called from here on.
InitRequested ==
    /\ now = 0
    /\ pairing_sessions =
          [d \in Devices |->
              IF d = "A"
              THEN <<PairingSession_new(NthSessionId(1), "B", TRUE)>>
              ELSE <<[PairingSession_new(NthSessionId(1), "A", FALSE)
                        EXCEPT !.peer_public_key = PublicKey("A")]>>]
    /\ paired_peers = [d \in Devices |-> <<>>]
    /\ vault_peers = [d \in Devices |-> <<>>]
    /\ vault_open = [d \in Devices |-> TRUE]
    /\ cmdq = [d \in Devices |-> <<>>]
    /\ evq = [d \in Devices |-> <<>>]
    /\ pending_responses = [d \in Devices |-> IF d = "B" THEN {"A"} ELSE {}]
    /\ wire = {}
    /\ emitted = [d \in Devices |->
          IF d = "B" THEN {[event |-> "pairing-request",
                            session_id |-> NthSessionId(1), peer_id |-> "A"]}
          ELSE {}]
    /\ acks = {}
    /\ verified = [d \in Devices |-> {}]
    /\ next_sid = 1
    /\ ncommands = 0
    /\ tampered = 0
    /\ discovered_peers = [d \in Devices |-> [p \in {} |-> <<>>]]
    /\ returned = Ok(NthSessionId(1))

InitSpecRequested == InitRequested /\ ClipboardIdle /\ SyncIdle /\ NetworkIdle /\ ConnectIdle /\ SettingsDefault /\ NoBufferCall /\ LifecycleIdle /\ AllFlushed /\ VaultClosed /\ TasksIdle /\ NoConnections

SpecRequested == InitSpecRequested /\ [][NextCommands]_vars

\* The pairing commands while mDNS reports peers to the initiating device and
\* loses them; the users type the PIN shown.
NextInitiate ==
    \/ \E d \in Initiators, p \in Devices : initiate_pairing(d, p)
    \/ \E d \in Devices, sid \in SessionIds, accept \in BOOLEAN, pin \in GeneratedPins :
          FrontendResponds(d, sid, accept, pin)
    \/ \E d \in Devices, sid \in SessionIds, pin \in GeneratedPins :
          FrontendConfirms(d, sid, pin)
    \/ \E d \in Devices, sid \in SessionIds : FrontendCancels(d, sid)
    \/ \E d \in Initiators, p \in Devices, addresses \in AddressLists :
          OnPeerDiscovered(d, p, addresses)
    \/ \E d \in Initiators, p \in Devices : OnPeerLost(d, p)
    \/ \E d \in Devices : handle_command(d)
    \/ \E d \in Devices : handle_swarm_event(d)
    \/ \E d \in Devices : handle_network_event(d)

SpecInitiate == InitSpecRequested /\ [][NextInitiate]_vars

\* The contents handed to set_clipboard and share_clipboard_content
\* The pairing of SpecRequested on devices whose users may lock the vault.
NextVault ==
    \/ NextCommands
    \/ \E d \in Devices : lock_vault(d)

SpecVault == InitSpecRequested /\ [][NextVault]_vars

\* A run of the NetworkManager of a paired device and of the peer events it
\* sends: no pairing is under way, the clipboard and the SyncManager are idle.
InitSpecNetwork == PairingDone /\ ClipboardIdle /\ SyncIdle /\ NoCall /\ InitNetwork /\ ConnectIdle /\ SettingsDefault /\ NoBufferCall /\ LifecycleIdle /\ AllFlushed /\ VaultClosed /\ TasksIdle /\ NoConnections

SpecNetwork == InitSpecNetwork /\ [][NextNetwork]_vars

\* A run of ensure_connected calls on a paired device, with the readiness
\* events of its peers.
InitSpecConnect ==
    PairingDone /\ ClipboardIdle /\ SyncIdle /\ NoCall /\ InitNetwork /\ ConnectIdle
        /\ SettingsDefault /\ NoBufferCall /\ LifecycleIdle /\ AllFlushed /\ VaultClosed /\ TasksIdle /\ NoConnections

SpecConnect == InitSpecConnect /\ [][NextConnect]_vars

SizedTexts == {"a", Exactly1MiB, Over1MiB}

\* The frontend calls set_clipboard and share_clipboard_content; the swarm
\* manager takes the commands they send.
NextShare ==
    \/ \E content \in SizedTexts, write_ok \in BOOLEAN : set_clipboard(content, write_ok)
    \/ \E content \in SizedTexts, utc_now \in Timestamps :
          share_clipboard_content(content, utc_now)
    \/ handle_broadcast_clipboard

\* A run of the two commands on a paired desktop device.
InitSpecShare == PairingDone /\ ClipboardIdle /\ SyncIdle /\ NoCall /\ NetworkIdle /\ ConnectIdle /\ SettingsDefault /\ NoBufferCall /\ LifecycleIdle /\ AllFlushed /\ VaultClosed /\ TasksIdle /\ NoConnections

SpecShare == InitSpecShare /\ [][NextShare]_vars

\* A run of calls of a new SyncManager.
InitSpecSync == PairingDone /\ ClipboardIdle /\ InitSync /\ NoCall /\ NetworkIdle /\ ConnectIdle /\ SettingsDefault /\ NoBufferCall /\ LifecycleIdle /\ AllFlushed /\ VaultClosed /\ TasksIdle /\ NoConnections

SpecSync == InitSpecSync /\ [][NextSync]_vars


\* ---- pairing properties -------------------------------------------------

\* The step of handle_network_event(d) that handles a PairingComplete event.
IsPairingCompleteStep(d) ==
    /\ evq[d] # <<>>
    /\ Head(evq[d]).ev = "PairingComplete"
    /\ evq'[d] = Tail(evq[d])

\* C1: a PairedPeer for peer P is added on device d only by a PairingComplete
\* event that names a local session with P which the local user confirmed
\* (state AwaitingPeerConfirmation); an unknown session or one in any other
\* state adds nothing.
C1_PairedOnlyAfterLocalConfirm ==
    [][\A d \in Devices :
          paired_peers'[d] # paired_peers[d] =>
            /\ IsPairingCompleteStep(d)
            /\ LET e == Head(evq[d])
                   i == FindSession(pairing_sessions[d], e.session_id)
               IN /\ i # 0
                  /\ pairing_sessions[d][i].peer_id = e.peer_id
                  /\ pairing_sessions[d][i].state = "AwaitingPeerConfirmation"]_vars

\* C2: on the responder, when the secret carried by the initiator's Confirm
\* differs from the secret derived from the own private key and the public key
\* stored in the session, the handler leaves the session in
\* Failed("Key verification failed"), adds no PairedPeer, flushes nothing to
\* the vault and emits no pairing-complete.
C2_KeyMismatchFailsPairing ==
    [][\A d \in Devices :
          LET e == Head(evq[d])
              ss == pairing_sessions[d]
              i == FindSession(ss, e.session_id)
              own == derive_shared_secret(PrivateKey(d), ss[i].peer_public_key)
          IN (/\ IsPairingCompleteStep(d)
              /\ i # 0
              /\ ~ss[i].is_initiator
              /\ own # DeriveErr
              /\ own # e.shared_secret)
             => /\ pairing_sessions'[d][i].state = FailedState("Key verification failed")
                /\ paired_peers'[d] = paired_peers[d]
                /\ vault_peers'[d] = vault_peers[d]
                /\ \A x \in emitted'[d] \ emitted[d] : x.event # "pairing-complete"]_vars

\* A responder has failed a session on the key comparison.
C2_Witness ==
    \E d \in Devices : \E i \in 1..Len(pairing_sessions[d]) :
        /\ ~pairing_sessions[d][i].is_initiator
        /\ pairing_sessions[d][i].state = FailedState("Key verification failed")
        /\ [event |-> "pairing-failed",
            session_id |-> pairing_sessions[d][i].session_id,
            peer_id |-> pairing_sessions[d][i].peer_id] \in emitted[d]

\* C3: every Confirm(success=true) acknowledgement a responder has sent is for
\* a session whose secret it had derived and found equal before.
C3_AckOnlyAfterVerification ==
    \A a \in acks : a.session_id \in verified[a.from]

Quiescent ==
    /\ wire = {}
    /\ \A d \in Devices : cmdq[d] = <<>> /\ evq[d] = <<>>

\* C4: once an exchange has run to its end, a device holds a PairedPeer for the
\* other only if the other holds one for it with the identical shared secret.
C4_PairingAgreement ==
    Quiescent =>
      \A d \in Devices : \A i \in 1..Len(paired_peers[d]) :
          LET p == paired_peers[d][i]
          IN \E j \in 1..Len(paired_peers[p.peer_id]) :
                /\ paired_peers[p.peer_id][j].peer_id = d
                /\ paired_peers[p.peer_id][j].shared_secret = p.shared_secret

\* ---- clipboard properties -----------------------------------------------

\* The hashes of the entries of a history
HashesOf(history) == {history[i].content_hash : i \in 1..Len(history)}

C6_NoEchoOfReceived ==
    /\ \A i \in 1..Len(clipboard_rx) : ~clipboard_rx[i].from_remote
    /\ \A i \in 1..Len(net_cmds) : ~net_cmds[i].from_remote

\* C8: when a local change is sent, the offline buffer of every paired peer
\* holds a message with the hash sent, encrypted under that peer's secret.
C8_SentIsBuffered ==
    [][Len(net_cmds') > Len(net_cmds) =>
         \A i \in 1..Len(paired_peers[Self]) :
            LET peer == paired_peers[Self][i]
                sent == net_cmds'[Len(net_cmds')].message
                buffer == message_buffers'[peer.peer_id]
            IN \E j \in 1..Len(buffer) :
                  /\ buffer[j].content_hash = sent.content_hash
                  /\ buffer[j].encrypted_content.key = peer.shared_secret]_vars

\* A message the handler is to apply: it does not name the device itself as
\* its origin, and it was encrypted, under the secret of some paired peer,
\* from a text whose hash it carries.
Acceptable(msg) ==
    /\ msg.origin_device_id # Self
    /\ \E i \in 1..Len(paired_peers[Self]) :
          msg.encrypted_content.key = paired_peers[Self][i].shared_secret
    /\ msg.encrypted_content.plaintext \in Texts
    /\ msg.content_hash = hash_content(msg.encrypted_content.plaintext)

\* The handler runs in the foreground: always on the desktop build.
InForeground == ~mobile \/ is_foreground

\* The step that ends the handling of a message applied in the foreground.
IsForegroundFinish ==
    /\ recv_pc = "applying"
    /\ recv_pc' = "idle"
    /\ recv_cur.is_foreground

Ahead(history, content_hash, timestamp) ==
    {i \in 1..Len(history) : /\ history[i].content_hash # content_hash
                             /\ history[i].timestamp >= timestamp}

C10_UnacceptableIsDropped ==
    [][/\ \/ /\ UNCHANGED <<clipboard_history, os_clipboard, last_hash,
                               pending_clipboard>>
             /\ recv_pc' = "idle"
          \/ \A msg \in ClipboardMessages, write_ok \in BOOLEAN :
                Acceptable(msg) \/ ~ReceiveStart(msg, write_ok)
       /\ (recv_pc = "idle" /\ recv_pc' = "applying")
             => \E msg \in ClipboardMessages :
                   /\ Acceptable(msg)
                   /\ recv_cur'.content_hash = msg.content_hash
                   /\ recv_cur'.content = msg.encrypted_content.plaintext
                   /\ recv_cur'.timestamp = msg.timestamp]_vars

\* On the desktop build the handler has taken an event (ninputs counts it),
\* dropped it and left everything as it was at the start.
C10_Witness ==
    /\ ~mobile
    /\ ninputs > 0
    /\ recv_pc = "idle"
    /\ clipboard_history = <<>>
    /\ os_clipboard = ""
    /\ last_hash = None
    /\ pending_clipboard = None
    /\ is_foreground

\* ---- SyncManager properties ---------------------------------------------

\* The step of a should_broadcast call; sync_ret' holds its arguments and
\* what it returned.
IsShouldBroadcastStep ==
    /\ ncalls' = ncalls + 1
    /\ sync_ret'.call = "should_broadcast"

\* The recently received hashes that have not expired
NonExpired ==
    {h \in DOMAIN recent_hashes : instant - recent_hashes[h] < RECENT_HASH_TTL_SECS}

C11_OversizeRejected ==
    [][\A content \in SizedTexts :
          /\ (TooLarge(content) /\
                 \/ \E write_ok \in BOOLEAN : set_clipboard(content, write_ok)
                 \/ \E utc_now \in Timestamps : share_clipboard_content(content, utc_now))
             => /\ returned' = Err("InvalidInput")
                /\ UNCHANGED <<os_clipboard, net_cmds, clipboard_history>>
          /\ (~TooLarge(content) /\
                 \/ set_clipboard(content, TRUE)
                 \/ \E utc_now \in Timestamps : share_clipboard_content(content, utc_now))
             => returned' = Ok("()")]_vars

\* The states a session is never to leave
Terminal(state) == state \notin {"Initiated", "AwaitingPinConfirmation",
                                 "AwaitingPeerConfirmation"}

\* The changes of state the pairing state machine allows
AllowedTransition(from, to) ==
    \/ from = "Initiated" /\ to = "AwaitingPinConfirmation"
    \/ from = "AwaitingPinConfirmation" /\ to = "AwaitingPeerConfirmation"
    \/ from = "AwaitingPeerConfirmation" /\ to = "Completed"
    \/ ~Terminal(from) /\ Terminal(to) /\ to # "Completed"
    \* a Failed session whose reason is replaced is still Failed
    \/ Terminal(from) /\ from # "Completed" /\ Terminal(to) /\ to # "Completed"

\* C12: the state of a session changes only along Initiated ->
\* AwaitingPinConfirmation -> AwaitingPeerConfirmation -> Completed or from
\* one of these three to Failed(reason); no step moves a session out of
\* Completed or Failed, and none moves it backwards.
C12_StateMachine ==
    [][\A d \in Devices : \A i \in 1..Len(pairing_sessions[d]) :
          \A j \in 1..Len(pairing_sessions'[d]) :
             LET s == pairing_sessions[d][i]
                 u == pairing_sessions'[d][j]
             IN (s.session_id = u.session_id /\ s.state # u.state)
                => AllowedTransition(s.state, u.state)]_vars

\* C13: once a session has expired, respond_to_pairing and confirm_pairing on
\* it leave it in Failed("Timeout") and send nothing, and no step adds a
\* PairedPeer for the peer of an expired session of that device.
C13_ExpiredSessionTimesOut ==
    [][\A d \in Devices : \A i \in 1..Len(pairing_sessions[d]) :
          LET s == pairing_sessions[d][i]
          IN is_expired(s) =>
               /\ ((\/ \E accept \in BOOLEAN, pin \in GeneratedPins :
                          respond_to_pairing(d, s.session_id, accept, pin)
                     \/ \E typed \in Pins : confirm_pairing(d, s.session_id, typed))
                   => /\ pairing_sessions'[d][i].state = FailedState("Timeout")
                      /\ cmdq'[d] = cmdq[d])
               /\ (IsPairingCompleteStep(d) /\ Head(evq[d]).session_id = s.session_id)
                   => paired_peers'[d] = paired_peers[d]]_vars

\* The step of a respond_to_pairing call of device d on its i-th session
IsRespondStep(d, i) ==
    \E accept \in BOOLEAN, pin \in FreshPins :
        respond_to_pairing(d, pairing_sessions[d][i].session_id, accept, pin)

C15_WrongPinFails ==
    [][\A d \in Devices : \A i \in 1..Len(pairing_sessions[d]) :
          LET s == pairing_sessions[d][i]
          IN /\ \A typed \in FreshPins :
                   (typed # s.pin /\ confirm_pairing(d, s.session_id, typed))
                   => /\ returned' = Ok("false")
                      /\ pairing_sessions'[d][i].state = FailedState("Invalid PIN")
                      /\ cmdq' = cmdq
             /\ (/\ s.state = FailedState("Invalid PIN")
                 /\ IsPairingCompleteStep(d)
                 /\ Head(evq[d]).session_id = s.session_id)
                => paired_peers'[d] = paired_peers[d]]_vars

\* C16: initiate_pairing(p) for a peer in paired_peers returns AlreadyPaired,
\* pushes no session and sends no command; for a peer not in paired_peers it
\* pushes exactly one session, Initiated and with is_initiator set, whose
\* peer_addresses are the addresses discovered_peers holds for p at the call
\* (none when p is not there).
C16_InitiateChecksPaired ==
    [][\A d \in Initiators, p \in Devices :
          initiate_pairing(d, p) =>
            IF \E i \in 1..Len(paired_peers[d]) : paired_peers[d][i].peer_id = p
            THEN /\ returned' = Err("AlreadyPaired")
                 /\ UNCHANGED <<pairing_sessions, cmdq>>
            ELSE LET old == pairing_sessions[d]
                     new == pairing_sessions'[d]
                 IN /\ Len(new) = Len(old) + 1
                    /\ SubSeq(new, 1, Len(old)) = old
                    /\ new[Len(new)].peer_id = p
                    /\ new[Len(new)].state = "Initiated"
                    /\ new[Len(new)].is_initiator
                    /\ new[Len(new)].peer_addresses =
                          IF p \in DOMAIN discovered_peers[d]
                          THEN discovered_peers[d][p] ELSE <<>>
                    /\ returned' = Ok(new[Len(new)].session_id)]_vars

\* A is paired with B, holds the one session it had and its last call,
\* initiate_pairing, was refused.
C16_Witness ==
    /\ \E i \in 1..Len(paired_peers["A"]) : paired_peers["A"][i].peer_id = "B"
    /\ Len(pairing_sessions["A"]) = 1
    /\ next_sid = 1
    /\ returned = Err("AlreadyPaired")

HasPeer(peers, peer_id) == \E i \in 1..Len(peers) : peers[i].peer_id = peer_id

\* C17: a step of the network-event loop that emits pairing-complete for peer
\* P leaves P in paired_peers and in the peers last flushed to the vault.
C17_CompleteAfterFlush ==
    [][\A d \in Devices :
         (/\ evq[d] # <<>>
          /\ Head(evq[d]).ev = "PairingComplete"
          /\ evq'[d] = Tail(evq[d])
          /\ emitted'[d] # emitted[d]
          /\ \E x \in emitted'[d] \ emitted[d] : x.event = "pairing-complete")
         => /\ HasPeer(paired_peers'[d], Head(evq[d]).peer_id)
            /\ HasPeer(vault_peers'[d], Head(evq[d]).peer_id)]_vars

\* ==========================================================================
\* Connection properties
\* ==========================================================================

\* C18: since a peer was last discovered or ReconnectPeers was last handled,
\* the manager has made at most MAX_CONNECTION_RETRIES retry dials to it.
C18_AtMostThreeRetries ==
    \A p \in ManagerPeers : retry_dials[p] <= MAX_CONNECTION_RETRIES

\* C19: the step that handles ReconnectPeers dials every paired peer that is
\* not connected and has a last known address, dials no connected peer and
\* leaves connected_peers as it is.
C19_ReconnectDialsPaired ==
    [][(command_rx # <<>> /\ command_rx' = Tail(command_rx))
       => /\ \A p \in ManagerPeers :
                (/\ is_peer_paired(Self, p)
                 /\ last_known_addresses[p] # <<>>
                 /\ p \notin connected_peers)
                => dialing'[p] = dialing[p] + 1
          /\ \A p \in ManagerPeers \cap connected_peers : dialing'[p] = dialing[p]
          /\ connected_peers' = connected_peers]_vars

\* The step sends the event `ev` for peer p to the network-event loop.
Sends(ev, p) ==
    /\ Len(network_event_rx') = Len(network_event_rx) + 1
    /\ network_event_rx'[Len(network_event_rx')].ev = ev
    /\ network_event_rx'[Len(network_event_rx')].peer_id = p

\* The step is the network-event loop handling the event `ev` of peer p.
Handles(ev, p) ==
    /\ network_event_rx # <<>>
    /\ network_event_rx' = Tail(network_event_rx)
    /\ Head(network_event_rx).ev = ev
    /\ Head(network_event_rx).peer_id = p

\* C20: a step in which a peer subscribes sends PeerReady for it, a step in
\* which it unsubscribes or its connection closes sends PeerNotReady, and the
\* status of a peer becomes Connected in the step that handles its PeerReady
\* and stops being Connected in the step that handles its next PeerNotReady
\* or PeerDisconnected, and in no other step.
C20_ReadyFollowsSubscription ==
    [][\A p \in ManagerPeers :
          /\ (p \notin subscribed /\ p \in subscribed') => Sends("PeerReady", p)
          /\ (p \in subscribed /\ p \notin subscribed') => Sends("PeerNotReady", p)
          /\ Handles("PeerReady", p) => IsConnected(peer_connections', p)
          /\ (Handles("PeerNotReady", p) \/ Handles("PeerDisconnected", p))
                => ~IsConnected(peer_connections', p)
          /\ (IsConnected(peer_connections', p) /\ ~IsConnected(peer_connections, p))
                => Handles("PeerReady", p)
          /\ (IsConnected(peer_connections, p) /\ ~IsConnected(peer_connections', p))
                => (Handles("PeerNotReady", p) \/ Handles("PeerDisconnected", p))]_vars

\* ==========================================================================
\* ensure_connected properties
\* ==========================================================================

\* C21: a call that holds the guard and waits while every peer it dialed has
\* become Connected has been woken: only a call with a dialed peer still
\* pending is left to wait for its timeout.
C21_WokenWhenAllReady ==
    \A c \in EnsureCalls :
        (/\ ec_pc[c] = "waiting"
         /\ \A p \in ec_to_dial[c] : IsConnected(peer_connections, p))
        => c \in woken

\* Where a call is while it holds the guard.
DialPhase == {"select", "mark", "store", "send", "notified", "waiting", "reset", "clear"}

\* C22: at most one call is in its dial phase, and a step of a call that found
\* the guard set sends no command and leaves peer_connections, pending_dials
\* and the guard as they are.
C22_OneDialPhase ==
    [][/\ Cardinality({c \in EnsureCalls : ec_pc'[c] \in DialPhase}) <= 1
       /\ \A c \in EnsureCalls :
             (/\ ec_pc'[c] # ec_pc[c]
              /\ "waiting for the other" \in {ec_pc[c], ec_pc'[c]})
             => /\ command_rx' = command_rx
                /\ peer_connections' = peer_connections
                /\ pending_dials' = pending_dials
                /\ reconnect_in_progress' = reconnect_in_progress
                /\ ec_pc'[c] \in {"waiting for the other", "returned"}
                /\ ec_pc'[c] = "returned" => ec_summary'[c] = get_connection_summary]_vars

\* c2 found the guard held by c1, waited up to its timeout and returned while
\* c1 was still waiting for its dials.
C22_Witness ==
    /\ ec_pc["c1"] = "waiting"
    /\ ec_pc["c2"] = "returned"
    /\ ec_to_dial["c2"] = {}
    /\ ec_summary["c2"] = [total_peers |-> 2, connected |-> 0, failed |-> 2]
    /\ nready = 0

SomeConnecting(connections) == \E p \in DOMAIN connections : connections[p] = "Connecting"

\* C23: the step in which a call gives the guard back leaves
\* reconnect_in_progress false and no peer Connecting, and in every state a
\* peer is Connecting only while reconnect_in_progress is true.
C23_NoConnectingLeft ==
    [][/\ \A c \in EnsureCalls :
             (ec_pc[c] \in DialPhase /\ ec_pc'[c] \notin DialPhase)
             => /\ ~reconnect_in_progress'
                /\ ~SomeConnecting(peer_connections')
       /\ SomeConnecting(peer_connections') => reconnect_in_progress']_vars

\* c1 dialed A and C, neither became ready, and c1 has reset both to
\* Disconnected and given the guard back.
C23_Witness ==
    /\ ec_pc["c1"] = "summary"
    /\ ec_to_dial["c1"] = {"A", "C"}
    /\ peer_connections = [p \in {"A", "C"} |-> "Disconnected"]
    /\ ~reconnect_in_progress
    /\ nready = 0

\* ---- C24 -------------------------------------------------------------------

\* C24: in every state the clipboard history holds at most
\* clipboard_history_limit entries, also after update_settings lowered the
\* limit and after unlock_vault loaded the history of the vault.
C24_HistoryWithinLimit == Len(clipboard_history) <= clipboard_history_limit

\* ---- C25, C26 --------------------------------------------------------------

\* The last n elements of a sequence, all of it when it is shorter
LastOf(seq, n) == IF Len(seq) > n THEN SubSeq(seq, Len(seq) - n + 1, Len(seq)) ELSE seq

C26_NoExpiredReturned ==
    buffer_call.fn \in {"get_buffer_for_peer", "find_message_for_peer_by_hash"}
        => \A i \in 1..Len(buffer_call.messages) :
              buffer_call.now - buffer_call.messages[i].timestamp < SYNC_TTL_SECONDS

\* ---- C27 -------------------------------------------------------------------

\* The ClipboardReceived handler, the Resumed task and
\* process_pending_clipboard are all at rest.
LifecycleQuiescent == recv_pc = "idle" /\ resumed_pc = "idle" /\ ppc_pc = "idle"

\* C27: the ClipboardReceived handler writes the OS clipboard only when it read
\* is_foreground as true; each content it queued is written by at most one of
\* the Resumed task and process_pending_clipboard; and once the app has been
\* resumed and the three are at rest, nothing is left in pending_clipboard.
C27_PendingAppliedOnResume ==
    /\ [][(recv_pc = "idle" /\ recv_pc' = "applying" /\ os_clipboard' # os_clipboard)
            => (mobile => is_foreground)]_vars
    /\ [](napplied <= nqueued)
    /\ []((mobile /\ is_foreground /\ LifecycleQuiescent) => pending_clipboard = None)

\* ---- C28 -------------------------------------------------------------------

\* C28: whenever the vault is unlocked and no mutator is between its write and
\* its flush, the vault holds the paired peers that are in memory, and the
\* clipboard history that is in memory when keep_history is on.
C28_VaultEqualsMemory ==
    (vault_open[Self] /\ AllFlushed)
        => /\ vault_peers[Self] = paired_peers[Self]
           /\ keep_history => vault_history = clipboard_history

\* ---- C29, C30 --------------------------------------------------------------

\* The step of a call on the manager; vm_call' holds what it returned.
IsVaultCall(fns) == vm_call'.seq # vm_call.seq /\ vm_call'.fn \in fns

\* The getters, the setters and flush
Accessors == {"get_" \o slot : slot \in Slots} \cup {"set_" \o slot : slot \in Slots} \cup {"flush"}

C30_FailedOpenIsInvalidPin ==
    [][(IsVaultCall({"open", "read_vault"}) /\ vm_call'.ret \notin {Ok("()"), Ok("VaultData")})
         => /\ vm_call'.ret = InvalidPin
            /\ stronghold = <<>> => stronghold' = <<>>
            /\ UNCHANGED <<vault_file, salt_file>>]_vars

\* ==========================================================================
\* Claims on session expiry, the vault round trip, locks, the dial counter,
\* the buffers, connections and deadlock
\* ==========================================================================

\* ---- PairingSession::is_expired, second by second --------------------------
MaxSeconds == 361     \* seconds the clock of an expiry run advances

\* created_at of the sessions of an expiry run
CreationTimes == {0, 30}

\* A session created at one of the creation times; the clock starts there.
InitExpiry ==
    /\ \E created \in CreationTimes :
          /\ now = created
          /\ pairing_sessions =
                [d \in Devices |->
                    IF d = "A"
                    THEN <<[session_id |-> NthSessionId(1), peer_id |-> "B",
                            peer_public_key |-> NoKey, pin |-> None,
                            state |-> "Initiated", is_initiator |-> TRUE,
                            created_at |-> created, peer_addresses |-> <<>>]>>
                    ELSE <<>>]
    /\ paired_peers = [d \in Devices |-> <<>>]
    /\ vault_peers = [d \in Devices |-> <<>>]
    /\ vault_open = [d \in Devices |-> TRUE]
    /\ cmdq = [d \in Devices |-> <<>>]
    /\ evq = [d \in Devices |-> <<>>]
    /\ pending_responses = [d \in Devices |-> {}]
    /\ wire = {}
    /\ emitted = [d \in Devices |-> {}]
    /\ acks = {}
    /\ verified = [d \in Devices |-> {}]
    /\ next_sid = 1
    /\ ncommands = 0
    /\ tampered = 0
    /\ discovered_peers = [d \in Devices |-> [p \in {} |-> <<>>]]
    /\ returned = <<>>

\* Utc::now() one second later
AdvanceSecond ==
    /\ now < MaxSeconds
    /\ now' = now + 1
    /\ UNCHANGED <<pairing_sessions, paired_peers, vault_peers, vault_open, cmdq, evq,
                   pending_responses, wire, emitted, acks, verified, next_sid,
                   ncommands, tampered, discovered_peers>>
    /\ UNCHANGED <<clipVars, syncVars, callVars, netVars, connVars, appVars, bufVars, lifeVars, flushVars, vmVars, lockVars, swarmVars>>

\* A call of is_expired on a session of d: the age of the session in seconds
\* and what the call returned.
IsExpired(d) ==
    /\ \E i \in 1..Len(pairing_sessions[d]) :
          returned' = <<now - pairing_sessions[d][i].created_at,
                        is_expired(pairing_sessions[d][i])>>
    /\ UNCHANGED <<pairVars, clipVars, syncVars, netVars, connVars, appVars, bufVars, lifeVars, flushVars, vmVars, lockVars, swarmVars>>

NextExpiry ==
    \/ AdvanceSecond
    \/ \E d \in Devices : IsExpired(d)

InitSpecExpiry == InitExpiry /\ ClipboardIdle /\ SyncIdle /\ NetworkIdle /\ ConnectIdle /\ SettingsDefault /\ NoBufferCall /\ LifecycleIdle /\ AllFlushed /\ VaultClosed /\ TasksIdle /\ NoConnections

SpecExpiry == InitSpecExpiry /\ [][NextExpiry]_vars

\* C33: is_expired() is false for every session age up to and including five
\* minutes and true for every age above five minutes (not expired at 4:59,
\* expired at 5:01).
C33_ExpiredAfterFiveMinutes ==
    returned # <<>> => (returned[2] <=> returned[1] > SessionTimeoutMinutes * 60)

\* ---- the vault round trip ------------------------------------------------------
\* What a getter returns for a key whose last written value is values[slot]
Expect(values, slot) == IF values[slot] = None THEN Absent(slot) ELSE values[slot]

\* What the getters of an open manager return when the values kept on disk
\* are `disk`: those, replaced by what was set since the manager was opened.
GettersReturn(disk) ==
    \A slot \in Slots :
        (IsVaultCall({"get_" \o slot}) /\ stronghold # <<>>)
            => vm_call'.ret = Ok(Expect(Override(disk, written.set), slot))

\* An open() on a manager that is not open, with the vault file on disk,
\* returns Ok for the PIN the vault was created with, and InvalidPin for
\* another PIN, which leaves the manager not open: every getter then returns
\* "Vault is not open".
OpenNeedsThePin ==
    (IsVaultCall({"open"}) /\ stronghold = <<>> /\ vault_path_exists)
        => \/ /\ vm_call'.ret = Ok("()")
              /\ stronghold' # <<>>
              /\ stronghold'[1].key = vault_file.key
           \/ /\ vm_call'.ret = InvalidPin
              /\ stronghold' = <<>>

\* create() on an existing vault fails; the manager and the files are as before.
CreateNeedsNoVault ==
    (IsVaultCall({"create"}) /\ vault_path_exists)
        => /\ vm_call'.ret = Err("Storage(Vault already exists)")
           /\ UNCHANGED <<stronghold, vault_file, salt_file>>

AtSend(task, channels) ==
    /\ running[task] # "idle"
    /\ Instruction(task)[1] = "send"
    /\ Instruction(task)[2] \in channels

\* The guards the task holds
GuardsOf(task) == {h \in held : h[1] = task}

\* C32: no task holds a read or write lock on a shared-state field while it
\* awaits a send on the command channel or the clipboard-change channel, in
\* initiate_pairing, respond_to_pairing, confirm_pairing,
\* share_clipboard_content, the clipboard-change task and the monitor's loop.
C32_NoLockAcrossSend ==
    \A task \in Tasks :
        (/\ running[task] \in {"initiate_pairing", "respond_to_pairing", "confirm_pairing",
                               "share_clipboard_content", "clipboard_change",
                               "monitor_poll"}
         /\ AtSend(task, {"command", "clipboard"}))
            => GuardsOf(task) = {}

\* ---- deadlock -------------------------------------------------------------------
\* Where the task stands in the line of an RwLock (0: it does not wait for it)
PlaceInLine(task, rwlock) ==
    IF \E i \in 1..Len(waiting[rwlock]) : waiting[rwlock][i][1] = task
    THEN CHOOSE i \in 1..Len(waiting[rwlock]) : waiting[rwlock][i][1] = task
    ELSE 0

\* The tasks that have to go on before the task can: the holders of the lock it
\* waits for whose guards exclude its own, and those ahead of it in the line;
\* the receiver of the full channel it sends on, unless the receiver is at its
\* recv().
WaitsFor(task) ==
    UNION {IF PlaceInLine(task, rwlock) = 0 THEN {}
           ELSE LET i == PlaceInLine(task, rwlock)
                    mode == waiting[rwlock][i][2]
                IN {h[1] : h \in {g \in held : /\ g[2] = rwlock
                                                 /\ (mode = "write" \/ g[3] = "write")}}
                   \cup {waiting[rwlock][j][1] : j \in 1..(i - 1)}
           : rwlock \in Locks}
    \cup (IF /\ AtSend(task, {"command", "event", "clipboard"})
             /\ Len(Queue(Instruction(task)[2])) >= ChannelCapacity
             /\ running[Receiver(Instruction(task)[2])] # "idle"
          THEN {Receiver(Instruction(task)[2])}
          ELSE {})

\* Some tasks wait for one another: each of them waits for one of them.
Deadlocked ==
    \E stuck \in SUBSET Tasks :
        /\ stuck # {}
        /\ \A task \in stuck : WaitsFor(task) \cap stuck # {}

\* C40: deadlock freedom. No reachable state has the manager, the
\* network-event task, the clipboard-change task, the monitor and command
\* tasks blocked forever on one another through the bounded channels and the
\* state RwLocks.
C40_NoDeadlock == ~Deadlocked


\* ==========================================================================
\* Several connections with one peer (network/swarm.rs)
\* ==========================================================================

\* SwarmEvent::ConnectionEstablished for any connection, the first with the
\* peer or a further one (one per dialed address, or one inbound next to one
\* outbound): the handler does not look at the connections already open.
ConnectionEstablishedWith(peer_id, outbound) ==
    /\ Len(network_event_rx) < ChannelCapacity
    /\ IF outbound
       THEN /\ dialing[peer_id] > 0
            /\ dialing' = [dialing EXCEPT ![peer_id] = @ - 1]
            /\ UNCHANGED nevents
       ELSE /\ nevents < MaxSwarmEvents
            /\ nevents' = nevents + 1
            /\ UNCHANGED dialing
    /\ established' = [established EXCEPT ![peer_id] = @ + 1]
    /\ pending_retries' = Without(pending_retries, {peer_id})
    /\ connected_peers' = connected_peers \cup {peer_id}
    /\ network_event_rx' = Append(network_event_rx,
           NetworkEvent("PeerConnected", peer_id, <<>>))
    /\ UNCHANGED <<manager_discovered_peers, subscribed, command_rx,
                   last_known_addresses, peer_connections, ready_peers, retry_instant,
                   retry_dials, ndials>>
    /\ UNCHANGED <<pairVars, clipVars, syncVars, callVars, connVars, appVars, bufVars, lifeVars, flushVars, vmVars, lockVars>>

\* SwarmEvent::ConnectionClosed for one of the open connections; gossipsub
\* keeps the peer's subscriptions while another connection is open.
ConnectionClosedWith(peer_id) ==
    /\ established[peer_id] > 0
    /\ Len(network_event_rx) < ChannelCapacity
    /\ established' = [established EXCEPT ![peer_id] = @ - 1]
    /\ connected_peers' = connected_peers \ {peer_id}
    /\ subscribed' = IF established[peer_id] = 1 THEN subscribed \ {peer_id} ELSE subscribed
    /\ network_event_rx' = Append(network_event_rx,
           NetworkEvent("PeerDisconnected", peer_id, <<>>))
    /\ UNCHANGED <<manager_discovered_peers, pending_retries, dialing, command_rx,
                   last_known_addresses, peer_connections, ready_peers, retry_instant,
                   retry_dials, ndials, nevents>>
    /\ UNCHANGED <<pairVars, clipVars, syncVars, callVars, connVars, appVars, bufVars, lifeVars, flushVars, vmVars, lockVars>>

NextConnections ==
    \/ \E p \in ManagerPeers : MdnsDiscovered(p)
    \/ \E p \in ManagerPeers, outbound \in BOOLEAN : ConnectionEstablishedWith(p, outbound)
    \/ \E p \in ManagerPeers : ConnectionClosedWith(p)
    \/ \E p \in ManagerPeers : OutgoingConnectionError(p)
    \/ handle_peer_event

InitSpecConnections == InitSpecNetwork

SpecConnections == InitSpecConnections /\ [][NextConnections]_vars

\* C38: a peer is in connected_peers iff at least one connection with it is
\* open: closing one of several connections leaves it there.
C38_ConnectedWhileOpen ==
    \A p \in ManagerPeers : p \in connected_peers <=> established[p] > 0

\* ==========================================================================
\* pending_dials
\* ==========================================================================

\* C34: the unsigned counter pending_dials never goes below zero (it never
\* wraps around), whatever PeerReady events arrive and whenever they arrive.
C34_NeverBelowZero == pending_dials >= 0

\* ==========================================================================
\* Offline buffers: what removes a message
\* ==========================================================================

\* The messages of a buffer
Buffered(buffer) == {buffer[i] : i \in 1..Len(buffer)}

C36_NoHistoryKept ==
    [][(Self \in unlocking' /\ Self \notin unlocking /\ ~keep_history)
          => clipboard_history' = <<>>]_vars

\* ==========================================================================
\* ready_peers and peer_connections
\* ==========================================================================

\* C37: the peers in ready_peers are the peers whose status in
\* peer_connections is Connected, whatever ensure_connected calls run next to
\* the event handlers.
C37_ReadyIsConnected ==
    ready_peers = {p \in DOMAIN peer_connections : peer_connections[p] = "Connected"}

\* ==========================================================================
\* The state in memory while the vault is locked
\* ==========================================================================

\* C39: while the vault of the device is locked and no unlock_vault is under
\* way, the state in memory holds no paired peer (with its shared secret) and
\* no clipboard history.
C39_LockedHoldsNothing ==
    (~vault_open[Self] /\ Self \notin unlocking)
        => (paired_peers[Self] = <<>> /\ clipboard_history = <<>>)

====
